---- MODULE Spec2Model ----
(***************************************************************************)
(* LocalStorageCryptoStore (matrix-js-sdk): the end-to-end encryption      *)
(* metadata store kept in a synchronous key-value substrate (a DOM         *)
(* Storage).  The substrate is a sequence of (key, text) items in its      *)
(* enumeration order; keys are sequences of characters, so that            *)
(* startsWith, split and slice are computed as the code computes them.     *)
(* A stored text is either the JSON serialisation of a value or text       *)
(* that JSON.parse rejects.                                                *)
(***************************************************************************)
EXTENDS Integers, Sequences, FiniteSets, TLC

VARIABLES
    store,      \* the substrate: a sequence of [key, val] in key(i) order
    ret,        \* the last call: its name, arguments and result (a read: also the substrate before it)
    pc,         \* the batch drain of a caller: "idle", "fetched" or "done"
    batch,      \* the batch the drain fetched last
    returned,   \* every element the drain's non-null batches have held, in order
    initial,    \* the sessions that were in the substrate when the drain started
    inflight    \* per context sharing the substrate: the call it has under way

vars == <<store, ret, pc, batch, returned, initial, inflight>>

----------------------------------------------------------------------------
(* Bounds of the model. *)

\* The substrate holds at most this many keys.
MaxKeys == 3

\* The substrate holds at most this many Olm sessions.
MaxSessions == 3

\* A drain that has been handed this many elements and is not done is given up.
MaxReturned == 4

\* A unit of work does not advance the migration beyond this stage.
MaxStage == 3

----------------------------------------------------------------------------
(* Characters and strings: a string is a sequence of one-character strings. *)

Min(a, b) == IF a < b THEN a ELSE b

Max(a, b) == IF a > b THEN a ELSE b

\* String.prototype.startsWith
StartsWith(s, p) == Len(s) >= Len(p) /\ SubSeq(s, 1, Len(p)) = p

\* String.prototype.slice(from, to) with 0 <= from, to (0-based, end exclusive)
Slice(s, from, to) == SubSeq(s, Min(from, Len(s)) + 1, Min(to, Len(s)))

\* String.prototype.slice(from)
SliceFrom(s, from) == SubSeq(s, Min(from, Len(s)) + 1, Len(s))

\* The index of the first sep in s at or after position i, or 0
RECURSIVE IndexOfFrom(_, _, _)
IndexOfFrom(s, sep, i) ==
    IF i > Len(s) THEN 0
    ELSE IF s[i] = sep THEN i
    ELSE IndexOfFrom(s, sep, i + 1)

\* String.prototype.split(sep): the sequence of the pieces between separators
RECURSIVE Split(_, _)
Split(s, sep) ==
    LET p == IndexOfFrom(s, sep, 1)
    IN  IF p = 0 THEN <<s>>
        ELSE <<SubSeq(s, 1, p - 1)>> \o Split(SubSeq(s, p + 1, Len(s)), sep)

----------------------------------------------------------------------------
(* JavaScript values.  An object is its own properties in insertion order. *)

Null == [t |-> "null"]

Undefined == [t |-> "undefined"]

Str(s) == [t |-> "str", s |-> s]

Num(n) == [t |-> "num", n |-> n]

Bool(b) == [t |-> "bool", b |-> b]

Obj(entries) == [t |-> "obj", e |-> entries]

Arr(items) == [t |-> "arr", a |-> items]

EmptyObj == Obj(<<>>)

\* Object.entries(v) for an object v (the stored roots are objects or null)
ObjEntries(v) == IF v.t = "obj" THEN v.e ELSE <<>>

\* Object.keys(v)
ObjKeys(v) == [i \in 1..Len(ObjEntries(v)) |-> ObjEntries(v)[i].k]

\* Object.values(v)
ObjValues(v) == [i \in 1..Len(ObjEntries(v)) |-> ObjEntries(v)[i].v]

\* k in v
ObjHas(v, k) == \E i \in 1..Len(ObjEntries(v)) : ObjEntries(v)[i].k = k

\* v[k]
ObjGet(v, k) ==
    IF ObjHas(v, k)
    THEN LET i == CHOOSE j \in 1..Len(v.e) : v.e[j].k = k IN v.e[i].v
    ELSE Undefined

\* v[k] = x: an existing property keeps its place, a new one goes last
ObjPut(v, k, x) ==
    IF ObjHas(v, k)
    THEN Obj([i \in 1..Len(v.e) |-> IF v.e[i].k = k THEN [k |-> k, v |-> x] ELSE v.e[i]])
    ELSE Obj(Append(v.e, [k |-> k, v |-> x]))

\* delete v[k]
ObjDelete(v, k) == Obj(SelectSeq(v.e, LAMBDA en : en.k # k))

\* a ?? b
Coalesce(a, b) == IF a = Null \/ a = Undefined THEN b ELSE a

\* a || b for a an object, null or undefined
OrElse(a, b) == IF a = Null \/ a = Undefined THEN b ELSE a

----------------------------------------------------------------------------
(* JSON.  A text is [json |-> v], the serialisation of v, or [bad |-> w],   *)
(* text that is not JSON.                                                  *)

\* What serialising keeps of a value: properties holding undefined are dropped
RECURSIVE JsonForm(_)
JsonForm(v) ==
    IF v.t = "obj"
    THEN LET kept == SelectSeq(v.e, LAMBDA en : en.v # Undefined)
         IN  Obj([i \in 1..Len(kept) |-> [k |-> kept[i].k, v |-> JsonForm(kept[i].v)]])
    ELSE v

\* JSON.stringify(v); stringify(undefined) is undefined, which setItem stores as
\* the text "undefined"
JsonStringify(v) == IF v = Undefined THEN [bad |-> "undefined"] ELSE [json |-> JsonForm(v)]

\* Whether JSON.parse(text) throws
JsonParseThrows(text) == "bad" \in DOMAIN text

\* JSON.parse(text) where it does not throw; JSON.parse(null) is null
JsonParse(text) == IF "json" \in DOMAIN text THEN text.json ELSE Null

----------------------------------------------------------------------------
(* The substrate (Storage). *)

\* What getItem returns for a key that is absent
NoItem == [absent |-> TRUE]

HasKey(st, key) == \E i \in 1..Len(st) : st[i].key = key

\* Storage.getItem
GetItem(st, key) ==
    IF HasKey(st, key)
    THEN LET i == CHOOSE j \in 1..Len(st) : st[j].key = key IN st[i].val
    ELSE NoItem

\* Storage.setItem: a present key keeps its place in the enumeration; a new key
\* takes the place pos the substrate gives it
SetItem(st, key, text, pos) ==
    IF HasKey(st, key)
    THEN [i \in 1..Len(st) |-> IF st[i].key = key THEN [key |-> key, val |-> text] ELSE st[i]]
    ELSE LET p == Max(1, Min(pos, Len(st) + 1))
         IN  SubSeq(st, 1, p - 1) \o <<[key |-> key, val |-> text]>> \o SubSeq(st, p, Len(st))

\* Storage.removeItem
RemoveItem(st, key) == SelectSeq(st, LAMBDA it : it.key # key)

\* The keys of the substrate
Keys(st) == {st[i].key : i \in 1..Len(st)}

\* What a caller gets of a call that raises instead of returning
Thrown == [t |-> "thrown"]

\* getJsonItem, had it not caught what JSON.parse throws
getJsonItem_noCatch(st, key) ==
    LET text == GetItem(st, key)
    IN  IF JsonParseThrows(text) THEN Thrown ELSE JsonParse(text)

getJsonItem(st, key) ==
    LET text == GetItem(st, key)
    IN  IF JsonParseThrows(text) THEN Null ELSE JsonParse(text)

setJsonItem(st, key, val, pos) == SetItem(st, key, JsonStringify(val), pos)

----------------------------------------------------------------------------
(* The key namespace. *)

E2E_PREFIX == <<"c", "r", "y", "p", "t", "o", ".">>

KEY_END_TO_END_MIGRATION_STATE == E2E_PREFIX \o <<"m", "i", "g", "r", "a", "t", "i", "o", "n">>

KEY_END_TO_END_ACCOUNT == E2E_PREFIX \o <<"a", "c", "c", "o", "u", "n", "t">>

KEY_CROSS_SIGNING_KEYS ==
    E2E_PREFIX \o <<"c", "r", "o", "s", "s", "_", "s", "i", "g", "n", "i", "n", "g", "_", "k", "e", "y", "s">>

KEY_INBOUND_SESSION_PREFIX ==
    E2E_PREFIX \o <<"i", "n", "b", "o", "u", "n", "d", "g", "r", "o", "u", "p",
                    "s", "e", "s", "s", "i", "o", "n", "s", "/">>

KEY_INBOUND_SESSION_WITHHELD_PREFIX ==
    E2E_PREFIX \o <<"i", "n", "b", "o", "u", "n", "d", "g", "r", "o", "u", "p",
                    "s", "e", "s", "s", "i", "o", "n", "s", ".",
                    "w", "i", "t", "h", "h", "e", "l", "d", "/">>

KEY_ROOMS_PREFIX == E2E_PREFIX \o <<"r", "o", "o", "m", "s", "/">>

\* The key of the backup-needed index, had it been put under the prefix that
\* the scans of the Olm sessions take
KEY_SESSIONS_NEEDING_BACKUP_underSessions ==
    E2E_PREFIX \o <<"s", "e", "s", "s", "i", "o", "n", "s", "/", "n", "e", "e", "d", "i", "n", "g",
                    "b", "a", "c", "k", "u", "p">>

KEY_SESSIONS_NEEDING_BACKUP ==
    E2E_PREFIX \o <<"s", "e", "s", "s", "i", "o", "n", "s", "n", "e", "e", "d", "i", "n", "g",
                    "b", "a", "c", "k", "u", "p">>

keyEndToEndSessions(deviceKey) ==
    E2E_PREFIX \o <<"s", "e", "s", "s", "i", "o", "n", "s", "/">> \o deviceKey

keyEndToEndInboundGroupSession(senderKey, sessionId) ==
    KEY_INBOUND_SESSION_PREFIX \o senderKey \o <<"/">> \o sessionId

keyEndToEndInboundGroupSessionWithheld(senderKey, sessionId) ==
    KEY_INBOUND_SESSION_WITHHELD_PREFIX \o senderKey \o <<"/">> \o sessionId

keyEndToEndRoomsPrefix(roomId) == KEY_ROOMS_PREFIX \o roomId

\* The batch size of base.ts (50 there), scaled down so that a drain takes
\* several batches over a handful of sessions
SESSION_BATCH_SIZE == 2

\* MigrationState.NOT_STARTED of base.ts
NOT_STARTED == 0

\* The name of the property of ISessionInfo that holds the pickle
SESSION == <<"s", "e", "s", "s", "i", "o", "n">>

----------------------------------------------------------------------------
(* Operations.  Each is a function of the substrate st and its arguments   *)
(* to [st |-> the substrate after the call, res |-> what the caller gets]. *)

\* LocalStorageCryptoStore.exists: the scan from index i on
RECURSIVE existsFrom(_, _)
existsFrom(st, i) ==
    IF i > Len(st) THEN FALSE
    ELSE IF StartsWith(st[i].key, E2E_PREFIX) THEN TRUE
    ELSE existsFrom(st, i + 1)

\* exists, had it tested the prefix without its final '.'
exists_prefixWithoutDot(st) ==
    \E i \in 1..Len(st) : StartsWith(st[i].key, SubSeq(E2E_PREFIX, 1, Len(E2E_PREFIX) - 1))

exists(st) == existsFrom(st, 1)

containsData(st) == [st |-> st, res |-> Bool(exists(st))]

\* getMigrationState, had it returned what is stored without the default
getMigrationState_noDefault(st) ==
    [st |-> st, res |-> getJsonItem(st, KEY_END_TO_END_MIGRATION_STATE)]

getMigrationState(st) ==
    [st |-> st, res |-> Coalesce(getJsonItem(st, KEY_END_TO_END_MIGRATION_STATE), Num(NOT_STARTED))]

\* setMigrationState, had it refused to move to an earlier stage
setMigrationState_forwardOnly(st, migrationState, pos) ==
    IF migrationState.n < getMigrationState(st).res.n
    THEN [st |-> st, res |-> Undefined]
    ELSE [st |-> setJsonItem(st, KEY_END_TO_END_MIGRATION_STATE, migrationState, pos),
          res |-> Undefined]

setMigrationState(st, migrationState, pos) ==
    [st |-> setJsonItem(st, KEY_END_TO_END_MIGRATION_STATE, migrationState, pos), res |-> Undefined]

(* Olm sessions *)

\* The loop, had it counted one for each device key
RECURSIVE countSessionsFrom_countsDevices(_, _, _)
countSessionsFrom_countsDevices(st, i, count) ==
    IF i > Len(st) THEN count
    ELSE IF StartsWith(st[i].key, keyEndToEndSessions(<<>>))
         THEN countSessionsFrom_countsDevices(st, i + 1, count + 1)
         ELSE countSessionsFrom_countsDevices(st, i + 1, count)

\* countEndToEndSessions: the loop from index i on with the count so far
RECURSIVE countSessionsFrom(_, _, _)
countSessionsFrom(st, i, count) ==
    IF i > Len(st) THEN count
    ELSE IF StartsWith(st[i].key, keyEndToEndSessions(<<>>))
         THEN LET sessions == getJsonItem(st, st[i].key)
              IN  countSessionsFrom(st, i + 1, count + Len(ObjKeys(Coalesce(sessions, EmptyObj))))
         ELSE countSessionsFrom(st, i + 1, count)

countEndToEndSessions(st) == [st |-> st, res |-> Num(countSessionsFrom(st, 1, 0))]

\* _getEndToEndSessions: old sessions (the bare pickle) become objects
_getEndToEndSessions(st, deviceKey) ==
    LET sessions == getJsonItem(st, keyEndToEndSessions(deviceKey))
        entries  == ObjEntries(OrElse(sessions, EmptyObj))
    IN  Obj([i \in 1..Len(entries) |->
                IF entries[i].v.t = "str"
                THEN [k |-> entries[i].k, v |-> Obj(<<[k |-> SESSION, v |-> entries[i].v]>>)]
                ELSE entries[i]])

\* getEndToEndSession, had it written the fixed-up mapping back (migration on read)
getEndToEndSession_persists(st, deviceKey, sessionId) ==
    LET sessions == _getEndToEndSessions(st, deviceKey)
    IN  [st  |-> setJsonItem(st, keyEndToEndSessions(deviceKey), sessions, 1),
         res |-> Coalesce(ObjGet(sessions, sessionId), EmptyObj)]


getEndToEndSession(st, deviceKey, sessionId) ==
    LET sessions == _getEndToEndSessions(st, deviceKey)
    IN  [st |-> st, res |-> Coalesce(ObjGet(sessions, sessionId), EmptyObj)]

\* getEndToEndSessions, had it written the fixed-up mapping back (migration on read)
getEndToEndSessions_persists(st, deviceKey) ==
    LET sessions == _getEndToEndSessions(st, deviceKey)
    IN  [st  |-> setJsonItem(st, keyEndToEndSessions(deviceKey), sessions, 1),
         res |-> Coalesce(sessions, EmptyObj)]


getEndToEndSessions(st, deviceKey) ==
    [st |-> st, res |-> Coalesce(_getEndToEndSessions(st, deviceKey), EmptyObj)]

\* storeEndToEndSession, had it kept the entry a session id already has
storeEndToEndSession_keepsOld(st, deviceKey, sessionId, sessionInfo, pos) ==
    LET sessions == OrElse(_getEndToEndSessions(st, deviceKey), EmptyObj)
    IN  [st  |-> setJsonItem(st, keyEndToEndSessions(deviceKey),
                             IF ObjHas(sessions, sessionId) THEN sessions
                             ELSE ObjPut(sessions, sessionId, sessionInfo), pos),
         res |-> Undefined]


storeEndToEndSession(st, deviceKey, sessionId, sessionInfo, pos) ==
    LET sessions == OrElse(_getEndToEndSessions(st, deviceKey), EmptyObj)
    IN  [st  |-> setJsonItem(st, keyEndToEndSessions(deviceKey),
                             ObjPut(sessions, sessionId, sessionInfo), pos),
         res |-> Undefined]

\* The device key getEndToEndSessionsBatch reads out of a substrate key
batchDeviceKey(key) == Split(key, "/")[2]

\* The inner loop of getEndToEndSessionsBatch: push the sessions of one device
\* from entry j on, returning as soon as the batch is full.  An element is
\* the session-info together with the device key and session id it was read
\* under (which the code does not return: the caller of a drain needs them).
RECURSIVE pushSessions(_, _, _, _)
pushSessions(result, deviceKey, entries, j) ==
    IF j > Len(entries) THEN result
    ELSE LET pushed == Append(result, [deviceKey |-> deviceKey,
                                       sessionId |-> entries[j].k,
                                       info      |-> entries[j].v])
         IN  IF Len(pushed) >= SESSION_BATCH_SIZE THEN pushed
             ELSE pushSessions(pushed, deviceKey, entries, j + 1)

\* The outer loop of getEndToEndSessionsBatch from index i on
RECURSIVE scanSessionsFrom(_, _, _)
scanSessionsFrom(st, i, result) ==
    IF i > Len(st) THEN result
    ELSE IF StartsWith(st[i].key, keyEndToEndSessions(<<>>))
         THEN LET deviceKey == batchDeviceKey(st[i].key)
                  entries   == ObjEntries(_getEndToEndSessions(st, deviceKey))
                  pushed    == pushSessions(result, deviceKey, entries, 1)
              IN  IF Len(pushed) >= SESSION_BATCH_SIZE THEN pushed
                  ELSE scanSessionsFrom(st, i + 1, pushed)
         ELSE scanSessionsFrom(st, i + 1, result)

\* The elements of the batch, each with the pair it was read under
sessionsBatchElements(st) == scanSessionsFrom(st, 1, <<>>)

\* getEndToEndSessionsBatch, had it taken the sessions it returns out of the
\* substrate (fetch and delete as one step)
getEndToEndSessionsBatch_removes(st) ==
    LET result == sessionsBatchElements(st)
        taken(it) == \E i \in 1..Len(result) : it.key = keyEndToEndSessions(result[i].deviceKey)
    IN  [st  |-> SelectSeq(st, LAMBDA it : ~taken(it)),
         res |-> IF Len(result) = 0 THEN Null
                 ELSE Arr([i \in 1..Len(result) |-> result[i].info])]

getEndToEndSessionsBatch(st) ==
    LET result == sessionsBatchElements(st)
    IN  [st  |-> st,
         res |-> IF Len(result) = 0 THEN Null
                 ELSE Arr([i \in 1..Len(result) |-> result[i].info])]

\* The iteration, had it written the mapping back also when it is empty
deleteOneSession_keepsEmpty(st, deviceKey, sessionId) ==
    LET deviceSessions == ObjDelete(OrElse(_getEndToEndSessions(st, deviceKey), EmptyObj),
                                    sessionId)
    IN  setJsonItem(st, keyEndToEndSessions(deviceKey), deviceSessions, 1)

\* The iteration, had it taken "nothing to delete" for "no more sessions"
deleteOneSession_removesWhenMissing(st, deviceKey, sessionId) ==
    LET before == OrElse(_getEndToEndSessions(st, deviceKey), EmptyObj)
        deviceSessions == ObjDelete(before, sessionId)
    IN  IF Len(ObjKeys(deviceSessions)) = 0 \/ ~ObjHas(before, sessionId)
        THEN RemoveItem(st, keyEndToEndSessions(deviceKey))
        ELSE setJsonItem(st, keyEndToEndSessions(deviceKey), deviceSessions, 1)

\* The iteration, had it removed the device's key whatever sessions remain
deleteOneSession_removesDevice(st, deviceKey, sessionId) ==
    RemoveItem(st, keyEndToEndSessions(deviceKey))

\* One iteration of the loop of deleteEndToEndSessionsBatch
deleteOneSession(st, deviceKey, sessionId) ==
    LET deviceSessions == ObjDelete(OrElse(_getEndToEndSessions(st, deviceKey), EmptyObj),
                                    sessionId)
    IN  IF Len(ObjKeys(deviceSessions)) = 0
        THEN RemoveItem(st, keyEndToEndSessions(deviceKey))
        ELSE setJsonItem(st, keyEndToEndSessions(deviceKey), deviceSessions, 1)

RECURSIVE deleteSessionsFrom(_, _, _)
deleteSessionsFrom(st, sessions, i) ==
    IF i > Len(sessions) THEN st
    ELSE deleteSessionsFrom(deleteOneSession(st, sessions[i].deviceKey, sessions[i].sessionId),
                            sessions, i + 1)

deleteEndToEndSessionsBatch(st, sessions) ==
    [st |-> deleteSessionsFrom(st, sessions, 1), res |-> Undefined]

(* Inbound group sessions *)

\* The length of a base64-encoded curve25519 key, which the batch relies on
SENDER_KEY_LEN == 43

\* Where the session id starts in a key without its prefix
SESSION_ID_OFFSET == 44

getEndToEndInboundGroupSession(st, senderCurve25519Key, sessionId) ==
    [st  |-> st,
     res |-> [groupSession |->
                  getJsonItem(st, keyEndToEndInboundGroupSession(senderCurve25519Key, sessionId)),
              groupSessionWithheld |->
                  getJsonItem(st, keyEndToEndInboundGroupSessionWithheld(senderCurve25519Key,
                                                                         sessionId))]]

\* storeEndToEndInboundGroupSession, had it dropped the withheld notice of the
\* session it stores
storeEndToEndInboundGroupSession_clearsWithheld(st, senderCurve25519Key, sessionId, sessionData, pos) ==
    [st  |-> RemoveItem(setJsonItem(st, keyEndToEndInboundGroupSession(senderCurve25519Key,
                                                                        sessionId),
                                    sessionData, pos),
                        keyEndToEndInboundGroupSessionWithheld(senderCurve25519Key, sessionId)),
     res |-> Undefined]

storeEndToEndInboundGroupSession(st, senderCurve25519Key, sessionId, sessionData, pos) ==
    [st  |-> setJsonItem(st, keyEndToEndInboundGroupSession(senderCurve25519Key, sessionId),
                         sessionData, pos),
     res |-> Undefined]

\* The count, had it tested the prefix without its final '/', which the
\* withheld prefix begins with too
RECURSIVE countGroupSessionsFrom_prefixWithoutSlash(_, _, _)
countGroupSessionsFrom_prefixWithoutSlash(st, i, count) ==
    IF i > Len(st) THEN count
    ELSE IF StartsWith(st[i].key, SubSeq(KEY_INBOUND_SESSION_PREFIX, 1,
                                         Len(KEY_INBOUND_SESSION_PREFIX) - 1))
         THEN countGroupSessionsFrom_prefixWithoutSlash(st, i + 1, count + 1)
         ELSE countGroupSessionsFrom_prefixWithoutSlash(st, i + 1, count)

\* countEndToEndInboundGroupSessions: the loop from index i on
RECURSIVE countGroupSessionsFrom(_, _, _)
countGroupSessionsFrom(st, i, count) ==
    IF i > Len(st) THEN count
    ELSE IF StartsWith(st[i].key, KEY_INBOUND_SESSION_PREFIX)
         THEN countGroupSessionsFrom(st, i + 1, count + 1)
         ELSE countGroupSessionsFrom(st, i + 1, count)

countEndToEndInboundGroupSessions(st) ==
    [st |-> st, res |-> Num(countGroupSessionsFrom(st, 1, 0))]

\* The element, had the key been split at the separators
groupSessionElement_split(st, key, sessionsNeedingBackup) ==
    LET key2 == SliceFrom(key, Len(KEY_INBOUND_SESSION_PREFIX))
    IN  [senderKey   |-> Split(key2, "/")[1],
         sessionId   |-> IF Len(Split(key2, "/")) > 1 THEN Split(key2, "/")[2] ELSE <<>>,
         sessionData |-> getJsonItem(st, key),
         needsBackup |-> ObjHas(sessionsNeedingBackup, key2)]

\* The element, had the session id been sliced from the end of the sender key
\* (keeping the separator)
groupSessionElement_keepsSeparator(st, key, sessionsNeedingBackup) ==
    LET key2 == SliceFrom(key, Len(KEY_INBOUND_SESSION_PREFIX))
    IN  [senderKey   |-> Slice(key2, 0, SENDER_KEY_LEN),
         sessionId   |-> SliceFrom(key2, SENDER_KEY_LEN),
         sessionData |-> getJsonItem(st, key),
         needsBackup |-> ObjHas(sessionsNeedingBackup, key2)]

\* The element, had the flag been looked up under the session id alone
groupSessionElement_flagBySessionId(st, key, sessionsNeedingBackup) ==
    LET key2 == SliceFrom(key, Len(KEY_INBOUND_SESSION_PREFIX))
    IN  [senderKey   |-> Slice(key2, 0, SENDER_KEY_LEN),
         sessionId   |-> SliceFrom(key2, SESSION_ID_OFFSET),
         sessionData |-> getJsonItem(st, key),
         needsBackup |-> ObjHas(sessionsNeedingBackup, SliceFrom(key2, SESSION_ID_OFFSET))]

\* The element getEndToEndInboundGroupSessionsBatch pushes for a key
groupSessionElement(st, key, sessionsNeedingBackup) ==
    LET key2 == SliceFrom(key, Len(KEY_INBOUND_SESSION_PREFIX))
    IN  [senderKey   |-> Slice(key2, 0, SENDER_KEY_LEN),
         sessionId   |-> SliceFrom(key2, SESSION_ID_OFFSET),
         sessionData |-> getJsonItem(st, key),
         needsBackup |-> ObjHas(sessionsNeedingBackup, key2)]

\* The loop of getEndToEndInboundGroupSessionsBatch from index i on
RECURSIVE scanGroupSessionsFrom(_, _, _, _)
scanGroupSessionsFrom(st, i, sessionsNeedingBackup, result) ==
    IF i > Len(st) THEN result
    ELSE IF StartsWith(st[i].key, KEY_INBOUND_SESSION_PREFIX)
         THEN LET pushed == Append(result,
                                   groupSessionElement(st, st[i].key, sessionsNeedingBackup))
              IN  IF Len(pushed) >= SESSION_BATCH_SIZE THEN pushed
                  ELSE scanGroupSessionsFrom(st, i + 1, sessionsNeedingBackup, pushed)
         ELSE scanGroupSessionsFrom(st, i + 1, sessionsNeedingBackup, result)

getEndToEndInboundGroupSessionsBatch(st) ==
    LET sessionsNeedingBackup == OrElse(getJsonItem(st, KEY_SESSIONS_NEEDING_BACKUP), EmptyObj)
        result == scanGroupSessionsFrom(st, 1, sessionsNeedingBackup, <<>>)
    IN  [st |-> st, res |-> IF Len(result) = 0 THEN Null ELSE Arr(result)]

\* The loop, had it also taken the flag of each session out of the index
RECURSIVE deleteGroupSessionsFrom_clearsFlag(_, _, _)
deleteGroupSessionsFrom_clearsFlag(st, sessions, i) ==
    IF i > Len(sessions) THEN st
    ELSE LET k == keyEndToEndInboundGroupSession(sessions[i].senderKey, sessions[i].sessionId)
             index == OrElse(getJsonItem(st, KEY_SESSIONS_NEEDING_BACKUP), EmptyObj)
             cleared == ObjDelete(index, sessions[i].senderKey \o <<"/">> \o sessions[i].sessionId)
             st2 == IF HasKey(st, KEY_SESSIONS_NEEDING_BACKUP)
                    THEN setJsonItem(st, KEY_SESSIONS_NEEDING_BACKUP, cleared, 1)
                    ELSE st
         IN  deleteGroupSessionsFrom_clearsFlag(RemoveItem(st2, k), sessions, i + 1)

RECURSIVE deleteGroupSessionsFrom(_, _, _)
deleteGroupSessionsFrom(st, sessions, i) ==
    IF i > Len(sessions) THEN st
    ELSE LET k == keyEndToEndInboundGroupSession(sessions[i].senderKey, sessions[i].sessionId)
         IN  deleteGroupSessionsFrom(RemoveItem(st, k), sessions, i + 1)

deleteEndToEndInboundGroupSessionsBatch(st, sessions) ==
    [st |-> deleteGroupSessionsFrom(st, sessions, 1), res |-> Undefined]

\* The loop of getEndToEndRooms from index i on
RECURSIVE roomsFrom(_, _, _)
roomsFrom(st, i, result) ==
    LET prefix == keyEndToEndRoomsPrefix(<<>>)
    IN  IF i > Len(st) THEN result
        ELSE IF StartsWith(st[i].key, prefix)
             THEN LET roomId == SliceFrom(st[i].key, Len(prefix))
                  IN  roomsFrom(st, i + 1, ObjPut(result, roomId, getJsonItem(st, st[i].key)))
             ELSE roomsFrom(st, i + 1, result)

getEndToEndRooms(st) == [st |-> st, res |-> roomsFrom(st, 1, EmptyObj)]

\* The loop, had it added an entry for each element without looking for one
RECURSIVE markFrom_appends(_, _, _)
markFrom_appends(sessionsNeedingBackup, sessions, i) ==
    IF i > Len(sessions) THEN sessionsNeedingBackup
    ELSE markFrom_appends(Obj(Append(ObjEntries(sessionsNeedingBackup),
                                     [k |-> sessions[i].senderKey \o <<"/">> \o sessions[i].sessionId,
                                      v |-> Bool(TRUE)])),
                          sessions, i + 1)

\* The loop of markSessionsNeedingBackup from element i on
RECURSIVE markFrom(_, _, _)
markFrom(sessionsNeedingBackup, sessions, i) ==
    IF i > Len(sessions) THEN sessionsNeedingBackup
    ELSE markFrom(ObjPut(sessionsNeedingBackup,
                         sessions[i].senderKey \o <<"/">> \o sessions[i].sessionId,
                         Bool(TRUE)),
                  sessions, i + 1)

markSessionsNeedingBackup(st, sessions, pos) ==
    LET sessionsNeedingBackup == OrElse(getJsonItem(st, KEY_SESSIONS_NEEDING_BACKUP), EmptyObj)
    IN  [st  |-> setJsonItem(st, KEY_SESSIONS_NEEDING_BACKUP,
                             markFrom(sessionsNeedingBackup, sessions, 1), pos),
         res |-> Undefined]

(* Account *)

\* deleteAllData, had it removed every key under the prefix
deleteAllData_removesPrefix(st) ==
    [st |-> SelectSeq(st, LAMBDA it : ~StartsWith(it.key, E2E_PREFIX)), res |-> Undefined]

\* deleteAllData, had it cleared the substrate
deleteAllData_clears(st) == [st |-> <<>>, res |-> Undefined]

deleteAllData(st) == [st |-> RemoveItem(st, KEY_END_TO_END_ACCOUNT), res |-> Undefined]

getAccount(st) == [st |-> st, res |-> getJsonItem(st, KEY_END_TO_END_ACCOUNT)]

storeAccount(st, accountPickle, pos) ==
    [st |-> setJsonItem(st, KEY_END_TO_END_ACCOUNT, accountPickle, pos), res |-> Undefined]

(* Cross-signing keys and secret-storage keys *)

getCrossSigningKeys(st) == [st |-> st, res |-> getJsonItem(st, KEY_CROSS_SIGNING_KEYS)]

\* The key of a secret, had it left the type out
keySecretStorePrivateKey_ignoresType(type) ==
    E2E_PREFIX \o <<"s", "s", "s", "s", "_", "c", "a", "c", "h", "e", ".">>

\* E2E_PREFIX + `ssss_cache.${type}`
keySecretStorePrivateKey(type) ==
    E2E_PREFIX \o <<"s", "s", "s", "s", "_", "c", "a", "c", "h", "e", ".">> \o type

getSecretStorePrivateKey(st, type) ==
    [st |-> st, res |-> getJsonItem(st, keySecretStorePrivateKey(type))]

storeSecretStorePrivateKey(st, type, key, pos) ==
    [st |-> setJsonItem(st, keySecretStorePrivateKey(type), key, pos), res |-> Undefined]

----------------------------------------------------------------------------
(* The inputs of the model. *)

DEVICE_A == <<"A">>

DEVICE_B == <<"B">>

\* A device key (unpadded base64) that holds the separator
DEVICE_A_SLASH_B == <<"A", "/", "B">>

DeviceKeys == {DEVICE_A, DEVICE_B, DEVICE_A_SLASH_B}

SessionIds == {<<"s", "1">>, <<"s", "2">>}

Pickles == {<<"p", "1">>, <<"p", "2">>}

\* A session-info record {session: pickle}
Info(pickle) == Obj(<<[k |-> SESSION, v |-> Str(pickle)]>>)

Infos == {Info(p) : p \in Pickles}

\* A per-device mapping as an older version wrote it: the bare pickle
LegacyItem(deviceKey, entries) ==
    [key |-> keyEndToEndSessions(deviceKey), val |-> [json |-> Obj(entries)]]

OlmInitialStores ==
    { <<>>,
      <<LegacyItem(DEVICE_A, <<[k |-> <<"s", "1">>, v |-> Str(<<"p", "1">>)]>>)>>,
      <<LegacyItem(DEVICE_B, <<[k |-> <<"s", "1">>, v |-> Str(<<"p", "1">>)],
                             [k |-> <<"s", "2">>, v |-> Info(<<"p", "2">>)]>>)>> }

SessionPairs == {[deviceKey |-> d, sessionId |-> s] : d \in DeviceKeys, s \in SessionIds}

\* The lists a caller passes to deleteEndToEndSessionsBatch: one session, or
\* two sessions of one device
DeleteLists ==
    {<<p>> : p \in SessionPairs}
    \cup {<<[deviceKey |-> d, sessionId |-> <<"s", "1">>],
             [deviceKey |-> d, sessionId |-> <<"s", "2">>]>> : d \in DeviceKeys}

----------------------------------------------------------------------------
(* What the substrate holds, read off the keys themselves. *)

\* The device key a sessions key was made from
DeviceOfKey(key) == SliceFrom(key, Len(keyEndToEndSessions(<<>>)))

IsSessionsKey(key) == StartsWith(key, keyEndToEndSessions(<<>>))

\* The (deviceKey, sessionId) pairs stored in st
SessionsPresent(st) ==
    UNION { { [deviceKey |-> DeviceOfKey(st[i].key), sessionId |-> en.k] :
                en \in {ObjEntries(getJsonItem(st, st[i].key))[j] :
                            j \in 1..Len(ObjEntries(getJsonItem(st, st[i].key)))} } :
            i \in {j \in 1..Len(st) : IsSessionsKey(st[j].key)} }

\* The raw (unfixed) value stored for a session, or Undefined
RawSession(st, deviceKey, sessionId) ==
    ObjGet(Coalesce(getJsonItem(st, keyEndToEndSessions(deviceKey)), EmptyObj), sessionId)

----------------------------------------------------------------------------
(* The Olm-session operations as actions. *)

NoCall == [op |-> "none"]

\* The devices of a delete list that had a key before the call and have none after
Emptied(before, after, sessions) ==
    {d \in {sessions[i].deviceKey : i \in 1..Len(sessions)} :
        HasKey(before, keyEndToEndSessions(d)) /\ ~HasKey(after, keyEndToEndSessions(d))}

\* The pairs of a delete list that were not stored before the call
Missing(before, sessions) == {sessions[i] : i \in 1..Len(sessions)} \ SessionsPresent(before)

Quiescent == pc \in {"idle", "done"}

\* The contexts that share the substrate
Contexts == {1, 2}

\* A context that has no call under way
NoneInFlight == [phase |-> "none"]

\* No context has a call under way
AllAtRest == [c \in Contexts |-> NoneInFlight]

Idle == /\ pc' = "idle"
        /\ batch' = <<>>
        /\ returned' = <<>>
        /\ initial' = {}
        /\ inflight' = inflight

CanAdd(key) == HasKey(store, key) \/ Len(store) < MaxKeys

\* The places the substrate may give a key that setItem adds
Places(key) == IF HasKey(store, key) THEN {1} ELSE 1..(Len(store) + 1)

GetEndToEndSession(d, s) ==
    /\ Quiescent
    /\ LET r == getEndToEndSession(store, d, s)
       IN  /\ store' = r.st
           /\ ret' = [op |-> "getEndToEndSession", deviceKey |-> d, sessionId |-> s,
                      res |-> r.res, pre |-> store]
    /\ Idle

GetEndToEndSessions(d) ==
    /\ Quiescent
    /\ LET r == getEndToEndSessions(store, d)
       IN  /\ store' = r.st
           /\ ret' = [op |-> "getEndToEndSessions", deviceKey |-> d, res |-> r.res, pre |-> store]
    /\ Idle

CountEndToEndSessions ==
    /\ Quiescent
    /\ LET r == countEndToEndSessions(store)
       IN  /\ store' = r.st
           /\ ret' = [op |-> "countEndToEndSessions", res |-> r.res, pre |-> store]
    /\ Idle

StoreEndToEndSession(d, s, info, pos) ==
    /\ Quiescent
    /\ CanAdd(keyEndToEndSessions(d))
    /\ LET r == storeEndToEndSession(store, d, s, info, pos)
       IN  /\ Cardinality(SessionsPresent(r.st)) <= MaxSessions
           /\ store' = r.st
           /\ ret' = [op |-> "storeEndToEndSession", deviceKey |-> d, sessionId |-> s,
                      info |-> info, res |-> r.res]
    /\ Idle

DeleteEndToEndSessionsBatch(sessions) ==
    /\ Quiescent
    /\ LET r == deleteEndToEndSessionsBatch(store, sessions)
       IN  /\ store' = r.st
           /\ ret' = [op |-> "deleteEndToEndSessionsBatch", sessions |-> sessions,
                      res |-> r.res, emptied |-> Emptied(store, r.st, sessions),
                      missing |-> Missing(store, sessions)]
    /\ Idle

(* The drain of a caller: fetch a batch, delete exactly the sessions it    *)
(* held, and again, until the batch is null.  Nothing else runs meanwhile. *)

DrainFetchSessions ==
    /\ pc \in {"idle", "deleted"}
    /\ LET r == getEndToEndSessionsBatch(store)
           elements == sessionsBatchElements(store)
       IN  /\ store' = r.st
           /\ ret' = [op |-> "getEndToEndSessionsBatch", res |-> r.res, pre |-> store]
           /\ pc' = IF r.res = Null THEN "done" ELSE "fetched"
           /\ batch' = IF r.res = Null THEN <<>> ELSE elements
           /\ returned' = IF r.res = Null THEN (IF pc = "idle" THEN <<>> ELSE returned)
                          ELSE (IF pc = "idle" THEN <<>> ELSE returned) \o elements
           /\ initial' = IF pc = "idle" THEN SessionsPresent(store) ELSE initial
           /\ inflight' = inflight

DrainDeleteSessions ==
    /\ pc = "fetched"
    /\ LET sessions == [i \in 1..Len(batch) |->
                           [deviceKey |-> batch[i].deviceKey, sessionId |-> batch[i].sessionId]]
           r == deleteEndToEndSessionsBatch(store, sessions)
       IN  /\ store' = r.st
           /\ ret' = [op |-> "deleteEndToEndSessionsBatch", sessions |-> sessions,
                      res |-> r.res, emptied |-> Emptied(store, r.st, sessions),
                      missing |-> Missing(store, sessions)]
    /\ pc' = "deleted"
    /\ UNCHANGED <<batch, returned, initial, inflight>>

OlmInit ==
    /\ store \in OlmInitialStores
    /\ ret = NoCall
    /\ pc = "idle"
    /\ batch = <<>>
    /\ returned = <<>>
    /\ initial = {}
    /\ inflight = AllAtRest

OlmNext ==
    \/ \E d \in DeviceKeys, s \in SessionIds : GetEndToEndSession(d, s)
    \/ \E d \in DeviceKeys : GetEndToEndSessions(d)
    \/ CountEndToEndSessions
    \/ \E d \in DeviceKeys, s \in SessionIds, info \in Infos :
           \E pos \in Places(keyEndToEndSessions(d)) : StoreEndToEndSession(d, s, info, pos)
    \/ \E sessions \in DeleteLists : DeleteEndToEndSessionsBatch(sessions)
    \/ DrainFetchSessions
    \/ DrainDeleteSessions

SpecOlm == OlmInit /\ [][OlmNext]_vars

----------------------------------------------------------------------------
(* Claims about the Olm-session operations, checked under SpecOlm. *)

\* C1: a drain (getEndToEndSessionsBatch, then deleteEndToEndSessionsBatch on
\* exactly the sessions returned, repeated until the batch is null) that has
\* ended has returned, over its non-null batches, as many sessions as the
\* substrate held when it started.
C1_DrainReturnsAllSessions ==
    pc = "done" => Len(returned) = Cardinality(initial)

\* C2: right after storeEndToEndSession(D, S, info), getEndToEndSession(D, S)
\* delivers info, whatever else the substrate holds.
C2_StoreThenGetDeliversInfo ==
    ret.op = "storeEndToEndSession" =>
        getEndToEndSession(store, ret.deviceKey, ret.sessionId).res = ret.info

\* The round trip happened on a device that holds another session, beside
\* sessions of another device.
C2_Witness ==
    /\ ret.op = "storeEndToEndSession"
    /\ \E p, q \in SessionsPresent(store) :
          /\ p.deviceKey = ret.deviceKey /\ p.sessionId # ret.sessionId
          /\ q.deviceKey # ret.deviceKey

\* The sessions of device d that st holds
SessionsOf(st, d) == {p \in SessionsPresent(st) : p.deviceKey = d}

\* The pairs a delete list names
Listed(sessions) == {sessions[i] : i \in 1..Len(sessions)}

\* C3: when deleteEndToEndSessionsBatch removes the last remaining session of
\* device D, the key crypto.sessions/D is gone from the substrate and
\* countEndToEndSessions counts only the sessions of the other devices.
C3_DeleteLastSessionRemovesKey ==
    [][ret'.op = "deleteEndToEndSessionsBatch" =>
          \A d \in DeviceKeys :
              (SessionsOf(store, d) # {} /\ SessionsOf(store, d) \subseteq Listed(ret'.sessions))
              => /\ ~HasKey(store', keyEndToEndSessions(d))
                 /\ countEndToEndSessions(store').res =
                        Num(Cardinality({p \in SessionsPresent(store') : p.deviceKey # d}))]_vars

\* A delete emptied a device while another device keeps its sessions.
C3_Witness ==
    /\ ret.op = "deleteEndToEndSessionsBatch"
    /\ ret.emptied # {}
    /\ SessionsPresent(store) # {}

\* C4: getEndToEndSessionsBatch returns null exactly when the substrate holds no
\* Olm session, and a batch that is not null is not empty.
C4_NullIffNoSessions ==
    ret.op = "getEndToEndSessionsBatch" =>
        /\ (ret.res = Null) <=> (SessionsPresent(ret.pre) = {})
        /\ ret.res # Null => Len(ret.res.a) > 0

\* Whether session (d, s) is stored in the legacy form, as the bare pickle
IsLegacy(st, d, s) == RawSession(st, d, s).t = "str"

\* C7: getEndToEndSession and getEndToEndSessions deliver a session stored as a
\* bare string as {session: <string>}, and the raw value of the device's key is
\* the same after the read as before it.
C7_LegacyReadNormalisesWithoutWriting ==
    /\ ret.op = "getEndToEndSession" =>
          /\ IsLegacy(ret.pre, ret.deviceKey, ret.sessionId) =>
                ret.res = Obj(<<[k |-> SESSION,
                                 v |-> RawSession(ret.pre, ret.deviceKey, ret.sessionId)]>>)
          /\ GetItem(store, keyEndToEndSessions(ret.deviceKey))
                = GetItem(ret.pre, keyEndToEndSessions(ret.deviceKey))
    /\ ret.op = "getEndToEndSessions" =>
          /\ \A s \in SessionIds :
                IsLegacy(ret.pre, ret.deviceKey, s) =>
                    ObjGet(ret.res, s) = Obj(<<[k |-> SESSION,
                                                v |-> RawSession(ret.pre, ret.deviceKey, s)]>>)
          /\ GetItem(store, keyEndToEndSessions(ret.deviceKey))
                = GetItem(ret.pre, keyEndToEndSessions(ret.deviceKey))

\* A legacy session was read and is still stored as the bare string.
C7_Witness ==
    /\ ret.op \in {"getEndToEndSession", "getEndToEndSessions"}
    /\ \E s \in SessionIds : IsLegacy(ret.pre, ret.deviceKey, s) /\ IsLegacy(store, ret.deviceKey, s)
    /\ ret.res # EmptyObj

\* Whether call r is a store or a delete that names device d
NamesDevice(r, d) ==
    \/ r.op = "storeEndToEndSession" /\ r.deviceKey = d
    \/ r.op = "deleteEndToEndSessionsBatch" /\ \E p \in Listed(r.sessions) : p.deviceKey = d

\* Whether call r is a store or a delete that names session (d, s)
NamesSession(r, d, s) ==
    \/ r.op = "storeEndToEndSession" /\ r.deviceKey = d /\ r.sessionId = s
    \/ r.op = "deleteEndToEndSessionsBatch"
          /\ [deviceKey |-> d, sessionId |-> s] \in Listed(r.sessions)

\* C8 as stated: a legacy entry that a call does not itself overwrite or delete
\* is still stored as the bare string after the call.
C8_LegacyFormKeptByEveryCall ==
    [][\A d \in DeviceKeys, s \in SessionIds :
          (IsLegacy(store, d, s) /\ ~NamesSession(ret', d, s))
          => RawSession(store', d, s) = RawSession(store, d, s)]_vars

\* C8 as amended: a legacy entry is still stored as the bare string after every
\* call that is not a store or a delete naming its device; a store or a delete
\* that names its device and another session id stores it as {session: <string>}.
C8_LegacyFormKeptUntilDeviceWritten ==
    [][\A d \in DeviceKeys, s \in SessionIds :
          IsLegacy(store, d, s) =>
              IF ~NamesDevice(ret', d)
              THEN RawSession(store', d, s) = RawSession(store, d, s)
              ELSE ~NamesSession(ret', d, s) =>
                      RawSession(store', d, s) =
                          Obj(<<[k |-> SESSION, v |-> RawSession(store, d, s)]>>)]_vars

\* A store or a delete on another device has left a legacy entry as it was.
C8_Witness ==
    \E d \in DeviceKeys, s \in SessionIds :
        /\ IsLegacy(store, d, s)
        /\ ret.op \in {"storeEndToEndSession", "deleteEndToEndSessionsBatch"}
        /\ ~NamesDevice(ret, d)

----------------------------------------------------------------------------
(* The inbound-group-session operations as actions. *)

\* A sender key of 43 characters
SENDER_K == [i \in 1..SENDER_KEY_LEN |-> "K"]

\* A sender key of 43 characters that holds the separator
SENDER_SLASH == [i \in 1..SENDER_KEY_LEN |-> IF i = 2 THEN "/" ELSE "L"]

\* A sender key that is no curve25519 key: it is too short
SENDER_SHORT == <<"S">>

GroupPairs ==
    { [senderKey |-> SENDER_K,     sessionId |-> <<"x">>],
      [senderKey |-> SENDER_K,     sessionId |-> <<"x", "/", "y">>],
      [senderKey |-> SENDER_SLASH, sessionId |-> <<"x", "/", "y">>],
      [senderKey |-> SENDER_SHORT, sessionId |-> <<"x", "/", "y">>] }

GroupData == Infos

GroupKey(p) == keyEndToEndInboundGroupSession(p.senderKey, p.sessionId)

\* The (senderKey, sessionId) pairs whose sessions st holds
GroupSessionsPresent(st) == {p \in GroupPairs : HasKey(st, GroupKey(p))}

\* The keys of st under the inbound-group-session prefix, in enumeration order
GroupKeys(st) ==
    LET items == SelectSeq(st, LAMBDA it : StartsWith(it.key, KEY_INBOUND_SESSION_PREFIX))
    IN  [i \in 1..Len(items) |-> items[i].key]

StoreEndToEndInboundGroupSession(p, data, pos) ==
    /\ Quiescent
    /\ CanAdd(GroupKey(p))
    /\ LET r == storeEndToEndInboundGroupSession(store, p.senderKey, p.sessionId, data, pos)
       IN  /\ store' = r.st
           /\ ret' = [op |-> "storeEndToEndInboundGroupSession", senderKey |-> p.senderKey,
                      sessionId |-> p.sessionId, sessionData |-> data, res |-> r.res]
    /\ Idle

GetEndToEndInboundGroupSession(p) ==
    /\ Quiescent
    /\ LET r == getEndToEndInboundGroupSession(store, p.senderKey, p.sessionId)
       IN  /\ store' = r.st
           /\ ret' = [op |-> "getEndToEndInboundGroupSession", senderKey |-> p.senderKey,
                      sessionId |-> p.sessionId, res |-> r.res, pre |-> store]
    /\ Idle

CountEndToEndInboundGroupSessions ==
    /\ Quiescent
    /\ LET r == countEndToEndInboundGroupSessions(store)
       IN  /\ store' = r.st
           /\ ret' = [op |-> "countEndToEndInboundGroupSessions", res |-> r.res, pre |-> store]
    /\ Idle

DeleteEndToEndInboundGroupSessionsBatch(sessions) ==
    /\ Quiescent
    /\ LET r == deleteEndToEndInboundGroupSessionsBatch(store, sessions)
       IN  /\ store' = r.st
           /\ ret' = [op |-> "deleteEndToEndInboundGroupSessionsBatch", sessions |-> sessions,
                      res |-> r.res]
    /\ Idle

(* The drain of a caller: the batch's elements name the sessions to delete. *)

DrainFetchGroupSessions ==
    /\ pc \in {"idle", "deleted"}
    /\ Len(returned) < MaxReturned
    /\ LET r == getEndToEndInboundGroupSessionsBatch(store)
           sofar == IF pc = "idle" THEN <<>> ELSE returned
           elements == IF r.res = Null THEN <<>> ELSE r.res.a
       IN  /\ store' = r.st
           /\ ret' = [op |-> "getEndToEndInboundGroupSessionsBatch", res |-> r.res, pre |-> store]
           /\ pc' = IF r.res = Null THEN "done" ELSE "fetched"
           /\ batch' = elements
           /\ returned' = sofar \o [i \in 1..Len(elements) |->
                                      [senderKey |-> elements[i].senderKey,
                                       sessionId |-> elements[i].sessionId]]
           /\ initial' = IF pc = "idle" THEN GroupSessionsPresent(store) ELSE initial
           /\ inflight' = inflight

DrainDeleteGroupSessions ==
    /\ pc = "fetched"
    /\ LET sessions == [i \in 1..Len(batch) |->
                           [senderKey |-> batch[i].senderKey, sessionId |-> batch[i].sessionId]]
           r == deleteEndToEndInboundGroupSessionsBatch(store, sessions)
       IN  /\ store' = r.st
           /\ ret' = [op |-> "deleteEndToEndInboundGroupSessionsBatch", sessions |-> sessions,
                      res |-> r.res]
    /\ pc' = "deleted"
    /\ UNCHANGED <<batch, returned, initial, inflight>>

\* The caller gives up a drain that does not end
AbandonDrain ==
    /\ pc = "deleted"
    /\ Len(returned) >= MaxReturned
    /\ ret' = NoCall
    /\ Idle
    /\ UNCHANGED store

DrainGroupSessionsStep ==
    /\ pc \in {"fetched", "deleted"}
    /\ (DrainFetchGroupSessions \/ DrainDeleteGroupSessions)

IgsInit ==
    /\ store = <<>>
    /\ ret = NoCall
    /\ pc = "idle"
    /\ batch = <<>>
    /\ returned = <<>>
    /\ initial = {}
    /\ inflight = AllAtRest

IgsNext ==
    \/ \E p \in GroupPairs, data \in GroupData :
           \E pos \in Places(GroupKey(p)) : StoreEndToEndInboundGroupSession(p, data, pos)
    \/ \E p \in GroupPairs : GetEndToEndInboundGroupSession(p)
    \/ CountEndToEndInboundGroupSessions
    \/ \E p \in GroupPairs : DeleteEndToEndInboundGroupSessionsBatch(<<p>>)
    \/ DrainFetchGroupSessions
    \/ DrainDeleteGroupSessions
    \/ AbandonDrain

SpecIgs == IgsInit /\ [][IgsNext]_vars

\* The caller of a drain runs its loop on: a drain under way takes its next step
SpecIgsDrain == SpecIgs /\ WF_vars(DrainGroupSessionsStep)

----------------------------------------------------------------------------
(* Claims about the inbound-group-session operations. *)

\* The elements of the batch that st yields, or <<>> when the batch is null
GroupBatch(st) ==
    LET res == getEndToEndInboundGroupSessionsBatch(st).res
    IN  IF res = Null THEN <<>> ELSE res.a

\* C5: a session stored under a sender key of 43 characters and any session id
\* (also one that holds '/') is the element of getEndToEndInboundGroupSessionsBatch
\* for its key with exactly that senderKey and sessionId, and with the data
\* stored; the batch holds it unless it is full before reaching it.
C5_GroupSessionKeyDecodes ==
    LET elements == GroupBatch(store)
    IN  /\ \A p \in GroupSessionsPresent(store) :
              Len(p.senderKey) = SENDER_KEY_LEN =>
                  /\ \A i \in 1..Len(elements) :
                        GroupKeys(store)[i] = GroupKey(p) =>
                            /\ elements[i].senderKey = p.senderKey
                            /\ elements[i].sessionId = p.sessionId
                  /\ \/ \E i \in 1..Len(elements) : GroupKeys(store)[i] = GroupKey(p)
                     \/ Len(elements) = SESSION_BATCH_SIZE
        /\ (ret.op = "storeEndToEndInboundGroupSession" /\ Len(ret.senderKey) = SENDER_KEY_LEN) =>
              \A i \in 1..Len(elements) :
                  GroupKeys(store)[i] = keyEndToEndInboundGroupSession(ret.senderKey, ret.sessionId)
                  => elements[i] = [senderKey   |-> ret.senderKey,
                                    sessionId   |-> ret.sessionId,
                                    sessionData |-> ret.sessionData,
                                    needsBackup |-> FALSE]

\* A session whose sender key and session id both hold '/' was stored and the
\* batch holds it.
C5_Witness ==
    /\ ret.op = "storeEndToEndInboundGroupSession"
    /\ ret.senderKey = SENDER_SLASH
    /\ \E i \in 1..Len(GroupBatch(store)) :
          /\ GroupBatch(store)[i].senderKey = SENDER_SLASH
          /\ GroupBatch(store)[i].sessionId = <<"x", "/", "y">>
    /\ Cardinality(GroupSessionsPresent(store)) > 1

\* Whether every session the drain started with has a sender key of 43 characters
ProperSenderKeys == \A p \in initial : Len(p.senderKey) = SENDER_KEY_LEN

\* The elements the drain has been handed, as a set
Returned == {returned[i] : i \in 1..Len(returned)}

\* C6: with all sender keys 43 characters long, a drain of the inbound group
\* sessions (fetch a batch, delete the pairs it names, and again) reaches the
\* null batch, and has then been handed every session present at its start
\* in exactly one batch.
C6_GroupDrainReturnsEachOnce ==
    /\ [](pc = "done" /\ ProperSenderKeys =>
            /\ Returned = initial
            /\ Len(returned) = Cardinality(initial)
            /\ GroupSessionsPresent(store) = {})
    /\ [](pc \in {"fetched", "deleted"} /\ ProperSenderKeys => <>(pc = "done"))

\* A drain over three sessions, so over more than one batch, has ended.
C6_Witness ==
    /\ pc = "done"
    /\ ProperSenderKeys
    /\ Cardinality(initial) > SESSION_BATCH_SIZE
    /\ Len(returned) = Cardinality(initial)

----------------------------------------------------------------------------
(* The whole store over a small population: one key of each kind, beside    *)
(* keys of other users of the substrate.                                   *)

\* A key of another user of the substrate: the prefix without its '.'
UNRELATED_CRYPTO == <<"c", "r", "y", "p", "t", "o">>

\* A key of another user of the substrate
UNRELATED_MX == <<"m", "x", "_", "x">>

UnrelatedKeys == {UNRELATED_CRYPTO, UNRELATED_MX}

UnrelatedItem(key) == [key |-> key, val |-> [bad |-> "text"]]

StoreInitialStores == {<<>>} \cup {<<UnrelatedItem(k)>> : k \in UnrelatedKeys}

\* MigrationState values: NOT_STARTED and two later stages
MigrationStates == {Num(NOT_STARTED), Num(NOT_STARTED + 1), Num(NOT_STARTED + 2)}

AccountPickles == {Str(<<"a", "1">>), Str(<<"a", "2">>)}

SecretTypes == {<<"t", "1">>}

SecretKeys == {Str(<<"k", "1">>)}

THE_SESSION == [deviceKey |-> DEVICE_A, sessionId |-> <<"s", "1">>]

THE_GROUP_SESSION == [senderKey |-> SENDER_K, sessionId |-> <<"x">>]

ContainsData ==
    /\ Quiescent
    /\ LET r == containsData(store)
       IN  /\ store' = r.st
           /\ ret' = [op |-> "containsData", res |-> r.res, pre |-> store]
    /\ Idle

GetMigrationState ==
    /\ Quiescent
    /\ LET r == getMigrationState(store)
       IN  /\ store' = r.st
           /\ ret' = [op |-> "getMigrationState", res |-> r.res, pre |-> store]
    /\ Idle

SetMigrationState(migrationState, pos) ==
    /\ Quiescent
    /\ CanAdd(KEY_END_TO_END_MIGRATION_STATE)
    /\ LET r == setMigrationState(store, migrationState, pos)
       IN  /\ store' = r.st
           /\ ret' = [op |-> "setMigrationState", migrationState |-> migrationState,
                      res |-> r.res, previous |-> getMigrationState(store).res]
    /\ Idle

GetAccount ==
    /\ Quiescent
    /\ LET r == getAccount(store)
       IN  /\ store' = r.st
           /\ ret' = [op |-> "getAccount", res |-> r.res, pre |-> store]
    /\ Idle

StoreAccount(accountPickle, pos) ==
    /\ Quiescent
    /\ CanAdd(KEY_END_TO_END_ACCOUNT)
    /\ LET r == storeAccount(store, accountPickle, pos)
       IN  /\ store' = r.st
           /\ ret' = [op |-> "storeAccount", accountPickle |-> accountPickle, res |-> r.res]
    /\ Idle

DeleteAllData ==
    /\ Quiescent
    /\ LET r == deleteAllData(store)
       IN  /\ store' = r.st
           /\ ret' = [op |-> "deleteAllData", res |-> r.res]
    /\ Idle

GetCrossSigningKeys ==
    /\ Quiescent
    /\ LET r == getCrossSigningKeys(store)
       IN  /\ store' = r.st
           /\ ret' = [op |-> "getCrossSigningKeys", res |-> r.res, pre |-> store]
    /\ Idle

GetSecretStorePrivateKey(type) ==
    /\ Quiescent
    /\ LET r == getSecretStorePrivateKey(store, type)
       IN  /\ store' = r.st
           /\ ret' = [op |-> "getSecretStorePrivateKey", type |-> type, res |-> r.res,
                      pre |-> store]
    /\ Idle

StoreSecretStorePrivateKey(type, key, pos) ==
    /\ Quiescent
    /\ CanAdd(keySecretStorePrivateKey(type))
    /\ LET r == storeSecretStorePrivateKey(store, type, key, pos)
       IN  /\ store' = r.st
           /\ ret' = [op |-> "storeSecretStorePrivateKey", type |-> type, key |-> key,
                      res |-> r.res]
    /\ Idle

MarkSessionsNeedingBackup(sessions, pos) ==
    /\ Quiescent
    /\ CanAdd(KEY_SESSIONS_NEEDING_BACKUP)
    /\ LET r == markSessionsNeedingBackup(store, sessions, pos)
       IN  /\ store' = r.st
           /\ ret' = [op |-> "markSessionsNeedingBackup", sessions |-> sessions, res |-> r.res]
    /\ Idle

StoreInit ==
    /\ store \in StoreInitialStores
    /\ ret = NoCall
    /\ pc = "idle"
    /\ batch = <<>>
    /\ returned = <<>>
    /\ initial = {}
    /\ inflight = AllAtRest

StoreNext ==
    \/ ContainsData
    \/ GetMigrationState
    \/ \E m \in MigrationStates :
           \E pos \in Places(KEY_END_TO_END_MIGRATION_STATE) : SetMigrationState(m, pos)
    \/ GetAccount
    \/ \E a \in AccountPickles : \E pos \in Places(KEY_END_TO_END_ACCOUNT) : StoreAccount(a, pos)
    \/ DeleteAllData
    \/ GetCrossSigningKeys
    \/ \E type \in SecretTypes : GetSecretStorePrivateKey(type)
    \/ \E type \in SecretTypes, key \in SecretKeys :
           \E pos \in Places(keySecretStorePrivateKey(type)) :
               StoreSecretStorePrivateKey(type, key, pos)
    \/ \E pos \in Places(keyEndToEndSessions(THE_SESSION.deviceKey)) :
           StoreEndToEndSession(THE_SESSION.deviceKey, THE_SESSION.sessionId,
                                Info(<<"p", "1">>), pos)
    \/ DeleteEndToEndSessionsBatch(<<THE_SESSION>>)
    \/ \E pos \in Places(GroupKey(THE_GROUP_SESSION)) :
           StoreEndToEndInboundGroupSession(THE_GROUP_SESSION, Info(<<"p", "1">>), pos)
    \/ DeleteEndToEndInboundGroupSessionsBatch(<<THE_GROUP_SESSION>>)
    \/ \E pos \in Places(KEY_SESSIONS_NEEDING_BACKUP) :
           MarkSessionsNeedingBackup(<<THE_GROUP_SESSION>>, pos)

SpecStore == StoreInit /\ [][StoreNext]_vars

----------------------------------------------------------------------------
(* Claims about the whole store, checked under SpecStore. *)

\* Whether st holds a key that begins with "crypto."
HoldsPrefixedKey(st) ==
    \E k \in Keys(st) :
        /\ Len(k) >= Len(E2E_PREFIX)
        /\ \A i \in 1..Len(E2E_PREFIX) : k[i] = E2E_PREFIX[i]

\* The calls that write under the prefix
PrefixWrites ==
    {"setMigrationState", "storeAccount", "storeSecretStorePrivateKey", "storeEndToEndSession",
     "storeEndToEndInboundGroupSession", "markSessionsNeedingBackup"}

C10_MigrationStateDefaultsToNotStarted ==
    /\ ~HasKey(store, KEY_END_TO_END_MIGRATION_STATE) =>
          getMigrationState(store).res = Num(NOT_STARTED)
    /\ (ret.op = "getMigrationState" /\ ~HasKey(ret.pre, KEY_END_TO_END_MIGRATION_STATE)) =>
          ret.res = Num(NOT_STARTED)

\* getMigrationState was called on a store in use whose migration key is absent.
C10_Witness ==
    /\ ret.op = "getMigrationState"
    /\ ~HasKey(ret.pre, KEY_END_TO_END_MIGRATION_STATE)
    /\ HoldsPrefixedKey(ret.pre)
    /\ ret.res = Num(NOT_STARTED)

----------------------------------------------------------------------------
(* The backup-needed index beside the inbound group sessions it flags.     *)

\* The sessions of the backup model: sender keys of 43 characters
BackupPairs ==
    { [senderKey |-> SENDER_K,     sessionId |-> <<"x">>],
      [senderKey |-> SENDER_K,     sessionId |-> <<"x", "/", "y">>],
      [senderKey |-> SENDER_SLASH, sessionId |-> <<"x", "/", "y">>] }

\* The lists a caller passes to markSessionsNeedingBackup: one session, or two
\* (also the same session twice)
MarkLists == {<<p>> : p \in BackupPairs} \cup {<<p, q>> : p, q \in BackupPairs}

\* The key of the backup-needed index for a session
CompositeKey(p) == p.senderKey \o <<"/">> \o p.sessionId

\* The backup-needed index that st holds
BackupIndex(st) == Coalesce(getJsonItem(st, KEY_SESSIONS_NEEDING_BACKUP), EmptyObj)

\* A call of getEndToEndInboundGroupSessionsBatch outside a drain
GetEndToEndInboundGroupSessionsBatch ==
    /\ Quiescent
    /\ LET r == getEndToEndInboundGroupSessionsBatch(store)
       IN  /\ store' = r.st
           /\ ret' = [op |-> "getEndToEndInboundGroupSessionsBatch", res |-> r.res, pre |-> store]
    /\ Idle

BackupInit ==
    /\ store = <<>>
    /\ ret = NoCall
    /\ pc = "idle"
    /\ batch = <<>>
    /\ returned = <<>>
    /\ initial = {}
    /\ inflight = AllAtRest

BackupNext ==
    \/ \E sessions \in MarkLists :
           \E pos \in Places(KEY_SESSIONS_NEEDING_BACKUP) : MarkSessionsNeedingBackup(sessions, pos)
    \/ \E p \in BackupPairs :
           \E pos \in Places(GroupKey(p)) :
               StoreEndToEndInboundGroupSession(p, Info(<<"p", "1">>), pos)
    \/ \E p \in BackupPairs : DeleteEndToEndInboundGroupSessionsBatch(<<p>>)
    \/ GetEndToEndInboundGroupSessionsBatch
    \/ DrainFetchGroupSessions
    \/ DrainDeleteGroupSessions
    \/ \E pos \in Places(KEY_END_TO_END_ACCOUNT) : StoreAccount(Str(<<"a", "1">>), pos)
    \/ DeleteAllData

SpecBackup == BackupInit /\ [][BackupNext]_vars

----------------------------------------------------------------------------
(* Claims about the backup-needed index, checked under SpecBackup. *)

\* How many entries of the object v have the key k
EntriesFor(v, k) == Cardinality({i \in 1..Len(ObjEntries(v)) : ObjEntries(v)[i].k = k})

\* C11: markSessionsNeedingBackup is idempotent: marking the sessions just marked
\* once more leaves the substrate as it is, marking a list that names its
\* sessions twice leaves what marking the list leaves, and after a call the
\* index holds, for each session marked, exactly one entry
\* '<senderKey>/<sessionId>' with the value true.
C11_MarkIsIdempotent ==
    /\ ret.op = "markSessionsNeedingBackup" =>
          /\ markSessionsNeedingBackup(store, ret.sessions, 1).st = store
          /\ \A i \in 1..Len(ret.sessions) :
                /\ EntriesFor(BackupIndex(store), CompositeKey(ret.sessions[i])) = 1
                /\ ObjGet(BackupIndex(store), CompositeKey(ret.sessions[i])) = Bool(TRUE)
    /\ \A sessions \in MarkLists :
          \A pos \in Places(KEY_SESSIONS_NEEDING_BACKUP) :
              markSessionsNeedingBackup(store, sessions \o sessions, pos).st
                  = markSessionsNeedingBackup(store, sessions, pos).st
    /\ \A k \in {ObjKeys(BackupIndex(store))[i] : i \in 1..Len(ObjKeys(BackupIndex(store)))} :
          EntriesFor(BackupIndex(store), k) = 1

\* A call named one session twice, on an index that held that session and
\* another already.
C11_Witness ==
    /\ ret.op = "markSessionsNeedingBackup"
    /\ Len(ret.sessions) = 2
    /\ ret.sessions[1] = ret.sessions[2]
    /\ Len(ObjEntries(BackupIndex(store))) = 2
    /\ ObjEntries(BackupIndex(store))[1].k = CompositeKey(ret.sessions[1])

----------------------------------------------------------------------------
(* The store over a substrate as it is found: one key left by an earlier   *)
(* session, whose text may be damaged.                                     *)

THE_ROOM == <<"!", "r">>

\* Text that JSON.parse rejects
DAMAGED == [bad |-> "text"]

\* A record as an earlier session stored it
A_RECORD == Obj(<<[k |-> <<"a">>, v |-> Str(<<"m">>)]>>)

\* The keys under the prefix that the operations read
ReservedKeys ==
    { KEY_END_TO_END_MIGRATION_STATE,
      KEY_END_TO_END_ACCOUNT,
      KEY_CROSS_SIGNING_KEYS,
      KEY_SESSIONS_NEEDING_BACKUP,
      keySecretStorePrivateKey(<<"t", "1">>),
      keyEndToEndSessions(THE_SESSION.deviceKey),
      GroupKey(THE_GROUP_SESSION),
      keyEndToEndInboundGroupSessionWithheld(THE_GROUP_SESSION.senderKey,
                                             THE_GROUP_SESSION.sessionId),
      keyEndToEndRoomsPrefix(THE_ROOM) }

\* The keys that this class reads and never writes
ReadOnlyKeys ==
    { KEY_CROSS_SIGNING_KEYS,
      keyEndToEndInboundGroupSessionWithheld(THE_GROUP_SESSION.senderKey,
                                             THE_GROUP_SESSION.sessionId),
      keyEndToEndRoomsPrefix(THE_ROOM) }

FoundStores ==
    {<<[key |-> k, val |-> DAMAGED]>> : k \in ReservedKeys}
    \cup {<<[key |-> k, val |-> [json |-> A_RECORD]]>> : k \in ReadOnlyKeys}

\* Whether an item is under the prefix and holds text that is not JSON
IsDamaged(it) == StartsWith(it.key, E2E_PREFIX) /\ JsonParseThrows(it.val)

\* The substrate without its damaged keys
WithoutDamaged(st) == SelectSeq(st, LAMBDA it : ~IsDamaged(it))

\* A call of getEndToEndSessionsBatch outside a drain
GetEndToEndSessionsBatch ==
    /\ Quiescent
    /\ LET r == getEndToEndSessionsBatch(store)
       IN  /\ store' = r.st
           /\ ret' = [op |-> "getEndToEndSessionsBatch", res |-> r.res, pre |-> store]
    /\ Idle

GetEndToEndRooms ==
    /\ Quiescent
    /\ LET r == getEndToEndRooms(store)
       IN  /\ store' = r.st
           /\ ret' = [op |-> "getEndToEndRooms", res |-> r.res, pre |-> store]
    /\ Idle

FoundInit ==
    /\ store \in FoundStores
    /\ ret = NoCall
    /\ pc = "idle"
    /\ batch = <<>>
    /\ returned = <<>>
    /\ initial = {}
    /\ inflight = AllAtRest

FoundNext ==
    \/ GetMigrationState
    \/ \E pos \in Places(KEY_END_TO_END_MIGRATION_STATE) :
           SetMigrationState(Num(NOT_STARTED + 1), pos)
    \/ GetAccount
    \/ \E pos \in Places(KEY_END_TO_END_ACCOUNT) : StoreAccount(Str(<<"a", "1">>), pos)
    \/ DeleteAllData
    \/ GetCrossSigningKeys
    \/ GetSecretStorePrivateKey(<<"t", "1">>)
    \/ \E pos \in Places(keySecretStorePrivateKey(<<"t", "1">>)) :
           StoreSecretStorePrivateKey(<<"t", "1">>, Str(<<"k", "1">>), pos)
    \/ \E pos \in Places(keyEndToEndSessions(THE_SESSION.deviceKey)) :
           StoreEndToEndSession(THE_SESSION.deviceKey, THE_SESSION.sessionId,
                                Info(<<"p", "1">>), pos)
    \/ DeleteEndToEndSessionsBatch(<<THE_SESSION>>)
    \/ \E pos \in Places(GroupKey(THE_GROUP_SESSION)) :
           StoreEndToEndInboundGroupSession(THE_GROUP_SESSION, Info(<<"p", "1">>), pos)
    \/ DeleteEndToEndInboundGroupSessionsBatch(<<THE_GROUP_SESSION>>)
    \/ \E pos \in Places(KEY_SESSIONS_NEEDING_BACKUP) :
           MarkSessionsNeedingBackup(<<THE_GROUP_SESSION>>, pos)
    \/ CountEndToEndSessions
    \/ GetEndToEndSession(THE_SESSION.deviceKey, THE_SESSION.sessionId)
    \/ GetEndToEndSessions(THE_SESSION.deviceKey)
    \/ GetEndToEndSessionsBatch
    \/ CountEndToEndInboundGroupSessions
    \/ GetEndToEndInboundGroupSession(THE_GROUP_SESSION)
    \/ GetEndToEndInboundGroupSessionsBatch
    \/ GetEndToEndRooms

SpecFound == FoundInit /\ [][FoundNext]_vars

----------------------------------------------------------------------------
(* Claims about damaged text and about deleteAllData, checked under        *)
(* SpecFound.                                                              *)

\* What every reading operation delivers on st
Reads(st) ==
    [ countEndToEndSessions |-> countEndToEndSessions(st).res,
      getEndToEndSessionsBatch |-> getEndToEndSessionsBatch(st).res,
      countEndToEndInboundGroupSessions |-> countEndToEndInboundGroupSessions(st).res,
      getEndToEndInboundGroupSessionsBatch |-> getEndToEndInboundGroupSessionsBatch(st).res,
      getEndToEndRooms |-> getEndToEndRooms(st).res,
      getMigrationState |-> getMigrationState(st).res,
      getAccount |-> getAccount(st).res,
      getCrossSigningKeys |-> getCrossSigningKeys(st).res,
      getSecretStorePrivateKey |-> getSecretStorePrivateKey(st, <<"t", "1">>).res,
      getEndToEndSession |->
          getEndToEndSession(st, THE_SESSION.deviceKey, THE_SESSION.sessionId).res,
      getEndToEndSessions |-> getEndToEndSessions(st, THE_SESSION.deviceKey).res,
      getEndToEndInboundGroupSession |->
          getEndToEndInboundGroupSession(st, THE_GROUP_SESSION.senderKey,
                                         THE_GROUP_SESSION.sessionId).res ]

\* C12: every reading operation delivers on a substrate with a damaged key
\* under the prefix what it delivers on the substrate without that key.
C12_DamagedKeyReadsAsAbsent ==
    /\ Reads(store) = Reads(WithoutDamaged(store))
    /\ ret.op \in DOMAIN Reads(store) => ret.res = Reads(WithoutDamaged(ret.pre))[ret.op]

\* Whether the value v holds, at any depth, the mark of a call that raised
RECURSIVE HoldsThrown(_)
HoldsThrown(v) ==
    \/ v = Thrown
    \/ v.t = "obj" /\ \E i \in 1..Len(v.e) : HoldsThrown(v.e[i].v)

\* Whether res is what a getter hands to its callback
IsGot(res) == ~HoldsThrown(res)

\* Whether res is what a count delivers
IsCount(res) == res.t = "num" /\ res.n >= 0

\* Whether res is what getEndToEndSessionsBatch delivers
IsSessionsBatch(res) ==
    \/ res = Null
    \/ res.t = "arr" /\ Len(res.a) > 0 /\ \A i \in 1..Len(res.a) : ~HoldsThrown(res.a[i])

\* Whether res is what getEndToEndInboundGroupSessionsBatch delivers
IsGroupSessionsBatch(res) ==
    \/ res = Null
    \/ res.t = "arr" /\ Len(res.a) > 0
          /\ \A i \in 1..Len(res.a) : ~HoldsThrown(res.a[i].sessionData)

\* Whether every reading operation completes on st with a value
ReadsComplete(st) ==
    LET r == Reads(st)
    IN  /\ IsCount(r.countEndToEndSessions)
        /\ IsSessionsBatch(r.getEndToEndSessionsBatch)
        /\ IsCount(r.countEndToEndInboundGroupSessions)
        /\ IsGroupSessionsBatch(r.getEndToEndInboundGroupSessionsBatch)
        /\ IsGot(r.getEndToEndRooms)
        /\ IsGot(r.getMigrationState)
        /\ IsGot(r.getAccount)
        /\ IsGot(r.getCrossSigningKeys)
        /\ IsGot(r.getSecretStorePrivateKey)
        /\ IsGot(r.getEndToEndSession)
        /\ IsGot(r.getEndToEndSessions)
        /\ IsGot(r.getEndToEndInboundGroupSession.groupSession)
        /\ IsGot(r.getEndToEndInboundGroupSession.groupSessionWithheld)

\* The calls that deliver nothing
VoidCalls ==
    {"setMigrationState", "storeAccount", "storeSecretStorePrivateKey", "storeEndToEndSession",
     "storeEndToEndInboundGroupSession", "markSessionsNeedingBackup", "deleteAllData",
     "deleteEndToEndSessionsBatch", "deleteEndToEndInboundGroupSessionsBatch"}

\* C13: on a substrate where a key under the prefix holds text that is not
\* JSON, every get, count and batch completes and delivers a value (never what
\* JSON.parse threw), and every store, delete and mark completes, leaving a
\* substrate on which every read completes again.
C13_NoFaultOnDamagedText ==
    /\ ReadsComplete(store)
    /\ ret.op \in VoidCalls => ret.res = Undefined
    /\ ret.op \in {"getAccount", "getMigrationState", "getCrossSigningKeys",
                   "getSecretStorePrivateKey", "getEndToEndSession", "getEndToEndSessions",
                   "getEndToEndRooms"} => IsGot(ret.res)
    /\ ret.op \in {"countEndToEndSessions", "countEndToEndInboundGroupSessions"}
          => IsCount(ret.res)
    /\ ret.op = "getEndToEndSessionsBatch" => IsSessionsBatch(ret.res)
    /\ ret.op = "getEndToEndInboundGroupSessionsBatch" => IsGroupSessionsBatch(ret.res)

\* getAccount was called while the account key held damaged text, beside
\* another key, and delivered null.
C13_Witness ==
    /\ ret.op = "getAccount"
    /\ \E i \in 1..Len(ret.pre) :
          ret.pre[i].key = KEY_END_TO_END_ACCOUNT /\ IsDamaged(ret.pre[i])
    /\ Len(ret.pre) > 1
    /\ ret.res = Null

IndexKeys(st) == {ObjKeys(BackupIndex(st))[i] : i \in 1..Len(ObjKeys(BackupIndex(st)))}

\* The index keys of the sessions a list names
CompositeKeys(sessions) == {CompositeKey(sessions[i]) : i \in 1..Len(sessions)}

\* C15: every element of a batch of getEndToEndInboundGroupSessionsBatch has
\* needsBackup true exactly when '<senderKey>/<sessionId>' of the element is a
\* key of the backup-needed index; and the keys of the index, none at the
\* start, are exactly those that the calls of markSessionsNeedingBackup have
\* named, so a session never marked is returned with needsBackup false.
C15_NeedsBackupIffMarked ==
    /\ IndexKeys(store) = {}
    /\ [](/\ \A i \in 1..Len(GroupBatch(store)) :
                GroupBatch(store)[i].needsBackup
                    <=> CompositeKey(GroupBatch(store)[i]) \in IndexKeys(store)
          /\ (ret.op = "getEndToEndInboundGroupSessionsBatch" /\ ret.res # Null) =>
                \A i \in 1..Len(ret.res.a) :
                    ret.res.a[i].needsBackup
                        <=> CompositeKey(ret.res.a[i]) \in IndexKeys(ret.pre))
    /\ [][IndexKeys(store') =
            IF ret'.op = "markSessionsNeedingBackup"
            THEN IndexKeys(store) \cup CompositeKeys(ret'.sessions)
            ELSE IndexKeys(store)]_vars

\* A batch held a session that had been marked and one that had not.
C15_Witness ==
    /\ ret.op = "getEndToEndInboundGroupSessionsBatch"
    /\ ret.res # Null
    /\ \E i, j \in 1..Len(ret.res.a) : ret.res.a[i].needsBackup /\ ~ret.res.a[j].needsBackup

----------------------------------------------------------------------------
(* Further claims about deleteEndToEndSessionsBatch, checked under SpecOlm. *)

\* The keys of st in enumeration order
KeySeq(st) == [i \in 1..Len(st) |-> st[i].key]

\* The session ids of device d in st, in the order of its mapping
SessionIdsOf(st, d) == ObjKeys(Coalesce(getJsonItem(st, keyEndToEndSessions(d)), EmptyObj))

\* Whether the call r is a delete none of whose pairs was stored
DeletesNothingStored(r) ==
    r.op = "deleteEndToEndSessionsBatch" /\ r.missing = Listed(r.sessions)

\* C17 as stated: deleteEndToEndSessionsBatch with pairs that are not stored
\* leaves every key of the substrate with exactly the value it had.
C17_DeleteOfMissingChangesNothing ==
    [][DeletesNothingStored(ret') => store' = store]_vars

\* C17 as amended: deleteEndToEndSessionsBatch with pairs that are not stored
\* completes, adds and removes no key and no session, and leaves every session
\* with the value it had, except that the sessions of a device it names that
\* are stored in the legacy form (the bare string) are stored as
\* {session: <string>} afterwards; a device that holds no legacy session keeps
\* its text as it was.
C17_DeleteOfMissingKeepsSessions ==
    [][DeletesNothingStored(ret') =>
          /\ ret'.res = Undefined
          /\ KeySeq(store') = KeySeq(store)
          /\ \A d \in DeviceKeys :
                /\ SessionIdsOf(store', d) = SessionIdsOf(store, d)
                /\ \A s \in SessionIds :
                      RawSession(store', d, s) =
                          IF IsLegacy(store, d, s) /\ NamesDevice(ret', d)
                          THEN Obj(<<[k |-> SESSION, v |-> RawSession(store, d, s)]>>)
                          ELSE RawSession(store, d, s)
                /\ (\A s \in SessionIds : ~IsLegacy(store, d, s)) =>
                      GetItem(store', keyEndToEndSessions(d)) = GetItem(store, keyEndToEndSessions(d))]_vars

\* A delete named a pair that was not stored, of a device that holds another
\* session, beside a device that has no key at all.
C17_Witness ==
    /\ DeletesNothingStored(ret)
    /\ \E p \in Listed(ret.sessions) : SessionsOf(store, p.deviceKey) # {}
    /\ \E d \in DeviceKeys : ~HasKey(store, keyEndToEndSessions(d))

----------------------------------------------------------------------------
(* The Olm-session operations on a store that starts empty. *)

OlmFreshInit ==
    /\ store = <<>>
    /\ ret = NoCall
    /\ pc = "idle"
    /\ batch = <<>>
    /\ returned = <<>>
    /\ initial = {}
    /\ inflight = AllAtRest

SpecOlmFresh == OlmFreshInit /\ [][OlmNext]_vars

\* C18: starting from the empty store, countEndToEndSessions reports the number
\* of distinct (deviceKey, sessionId) pairs stored and not deleted since, over
\* all devices: the pairs the substrate holds are none at the start, gain the
\* pair of each storeEndToEndSession, lose the pairs of each
\* deleteEndToEndSessionsBatch and are otherwise kept, and the count is their
\* number in every state.
C18_CountIsStoredMinusDeleted ==
    /\ SessionsPresent(store) = {}
    /\ [](/\ countEndToEndSessions(store).res = Num(Cardinality(SessionsPresent(store)))
          /\ ret.op = "countEndToEndSessions" =>
                ret.res = Num(Cardinality(SessionsPresent(ret.pre))))
    /\ [][SessionsPresent(store') =
            IF ret'.op = "storeEndToEndSession"
            THEN SessionsPresent(store)
                     \cup {[deviceKey |-> ret'.deviceKey, sessionId |-> ret'.sessionId]}
            ELSE IF ret'.op = "deleteEndToEndSessionsBatch"
            THEN SessionsPresent(store) \ Listed(ret'.sessions)
            ELSE SessionsPresent(store)]_vars

\* The count was taken over two devices, one of which holds two sessions.
C18_Witness ==
    /\ ret.op = "countEndToEndSessions"
    /\ ret.res = Num(3)
    /\ Len(ret.pre) = 2

\* C19: in every state reached from the empty store, no key
\* crypto.sessions/<deviceKey> holds an empty mapping: a device's key is in the
\* substrate only while the device has a session.
C19_NoEmptyDeviceMapping ==
    \A i \in 1..Len(store) :
        IsSessionsKey(store[i].key) =>
            /\ getJsonItem(store, store[i].key).t = "obj"
            /\ Len(ObjKeys(getJsonItem(store, store[i].key))) > 0
            /\ SessionsOf(store, DeviceOfKey(store[i].key)) # {}

\* A delete took the last session of the device "A/B", whose key is gone,
\* while two other devices keep theirs.
C19_Witness ==
    /\ ret.op = "deleteEndToEndSessionsBatch"
    /\ DEVICE_A_SLASH_B \in ret.emptied
    /\ ~HasKey(store, keyEndToEndSessions(DEVICE_A_SLASH_B))
    /\ Len(store) = 2

----------------------------------------------------------------------------
(* The frame of deleteEndToEndSessionsBatch, checked under SpecOlm. *)

\* C20: deleteEndToEndSessionsBatch removes exactly the entries it lists: the
\* pairs stored afterwards are those stored before without the listed ones,
\* getEndToEndSession delivers {} for a listed pair, and for every other pair,
\* of the same devices and of other devices, what it delivered before.
C20_DeleteRemovesExactlyListed ==
    [][ret'.op = "deleteEndToEndSessionsBatch" =>
          /\ SessionsPresent(store') = SessionsPresent(store) \ Listed(ret'.sessions)
          /\ \A d \in DeviceKeys, s \in SessionIds :
                getEndToEndSession(store', d, s).res =
                    IF [deviceKey |-> d, sessionId |-> s] \in Listed(ret'.sessions)
                    THEN EmptyObj
                    ELSE getEndToEndSession(store, d, s).res]_vars

\* A delete removed a stored session of a device that keeps another session,
\* while another device keeps its own.
C20_Witness ==
    /\ ret.op = "deleteEndToEndSessionsBatch"
    /\ ret.missing = {}
    /\ ret.emptied = {}
    /\ \E p \in Listed(ret.sessions) :
          /\ SessionsOf(store, p.deviceKey) # {}
          /\ \E q \in SessionsPresent(store) : q.deviceKey # p.deviceKey

----------------------------------------------------------------------------
(* Claims about the batches of getEndToEndSessionsBatch, checked under     *)
(* SpecOlm.                                                                *)

\* The sessions that st holds, in enumeration order: key by key, each key's
\* own mapping entry by entry, as getEndToEndSessions delivers them
RECURSIVE SessionsInOrder(_, _)
SessionsInOrder(st, i) ==
    IF i > Len(st) THEN <<>>
    ELSE IF IsSessionsKey(st[i].key)
         THEN LET d == DeviceOfKey(st[i].key)
                  entries == ObjEntries(getEndToEndSessions(st, d).res)
              IN  [j \in 1..Len(entries) |->
                      [deviceKey |-> d, sessionId |-> entries[j].k, info |-> entries[j].v]]
                  \o SessionsInOrder(st, i + 1)
         ELSE SessionsInOrder(st, i + 1)

\* The first n elements of a sequence
FirstN(seq, n) == SubSeq(seq, 1, Min(n, Len(seq)))

\* The session-infos of a sequence of elements
InfosOf(elements) == [i \in 1..Len(elements) |-> elements[i].info]

\* C21: a batch of getEndToEndSessionsBatch or of
\* getEndToEndInboundGroupSessionsBatch never holds more than SESSION_BATCH_SIZE
\* elements and holds exactly min(SESSION_BATCH_SIZE, sessions remaining)
\* elements (none: the batch is null).
C21_BatchHoldsMinOfSizeAndRemaining ==
    /\ Len(sessionsBatchElements(store)) <= SESSION_BATCH_SIZE
    /\ Len(sessionsBatchElements(store))
           = Min(SESSION_BATCH_SIZE, Cardinality(SessionsPresent(store)))
    /\ Len(GroupBatch(store)) <= SESSION_BATCH_SIZE
    /\ Len(GroupBatch(store)) = Min(SESSION_BATCH_SIZE, Len(GroupKeys(store)))
    /\ ret.op = "getEndToEndSessionsBatch" =>
          (IF ret.res = Null THEN 0 ELSE Len(ret.res.a))
              = Min(SESSION_BATCH_SIZE, Cardinality(SessionsPresent(ret.pre)))

\* C22: the batch getters keep no cursor: a call leaves the substrate as it
\* was and a second call right after it returns the same batch; and in every
\* state (so also after the delete of the batch fetched before) the batch is
\* the first SESSION_BATCH_SIZE sessions that remain, none skipped.
C22_BatchRestartsFromTheTop ==
    /\ ret.op = "getEndToEndSessionsBatch" =>
          /\ store = ret.pre
          /\ getEndToEndSessionsBatch(store).res = ret.res
    /\ InfosOf(sessionsBatchElements(store))
           = InfosOf(FirstN(SessionsInOrder(store, 1), SESSION_BATCH_SIZE))
    /\ pc = "deleted" =>
          \A i \in 1..Len(sessionsBatchElements(store)) :
              [deviceKey |-> sessionsBatchElements(store)[i].deviceKey,
               sessionId |-> sessionsBatchElements(store)[i].sessionId] \in SessionsPresent(store)

\* C30: getEndToEndSessionsBatch returns the sessions of every device that has
\* sessions, also of a device whose key holds '/': it reads each sessions key
\* under the device key the key was made from, and a batch that is not full
\* holds, for every device, the sessions stored for that device.
C30_BatchReadsDevicesWithSeparator ==
    /\ \A i \in 1..Len(store) :
          IsSessionsKey(store[i].key) => batchDeviceKey(store[i].key) = DeviceOfKey(store[i].key)
    /\ ret.op = "getEndToEndSessionsBatch" =>
          \/ ret.res # Null /\ Len(ret.res.a) >= SESSION_BATCH_SIZE
          \/ \A p \in SessionsPresent(ret.pre) :
                /\ ret.res # Null
                /\ \E i \in 1..Len(ret.res.a) :
                      ret.res.a[i] = getEndToEndSession(ret.pre, p.deviceKey, p.sessionId).res

----------------------------------------------------------------------------
(* Two contexts sharing one substrate (two tabs on one localStorage).  A    *)
(* call is synchronous within its context, but the substrate gives no lock  *)
(* across contexts: the read of a read-modify-write call of one context and *)
(* its write may have a step of the other context between them.             *)

\* storeEndToEndSession up to its read: const sessions = ... || {}
storeEndToEndSessionRead(st, deviceKey) == OrElse(_getEndToEndSessions(st, deviceKey), EmptyObj)

\* The write, had it read the mapping again and merged into what it finds
storeEndToEndSessionWrite_rereads(st, deviceKey, sessions, sessionId, sessionInfo, pos) ==
    storeEndToEndSession(st, deviceKey, sessionId, sessionInfo, pos)

\* storeEndToEndSession from its read on: the assignment and setJsonItem
storeEndToEndSessionWrite(st, deviceKey, sessions, sessionId, sessionInfo, pos) ==
    [st  |-> setJsonItem(st, keyEndToEndSessions(deviceKey),
                         ObjPut(sessions, sessionId, sessionInfo), pos),
     res |-> Undefined]

\* markSessionsNeedingBackup up to its read
markSessionsNeedingBackupRead(st) == OrElse(getJsonItem(st, KEY_SESSIONS_NEEDING_BACKUP), EmptyObj)

\* markSessionsNeedingBackup from its read on: the loop and setJsonItem
markSessionsNeedingBackupWrite(st, sessionsNeedingBackup, sessions, pos) ==
    [st  |-> setJsonItem(st, KEY_SESSIONS_NEEDING_BACKUP,
                         markFrom(sessionsNeedingBackup, sessions, 1), pos),
     res |-> Undefined]

\* The sessions the two contexts mark
SharedMarkLists ==
    { <<[senderKey |-> SENDER_K, sessionId |-> <<"x">>]>>,
      <<[senderKey |-> SENDER_K, sessionId |-> <<"x", "/", "y">>]>> }

AtRest == /\ pc' = pc
          /\ batch' = batch
          /\ returned' = returned
          /\ initial' = initial

BeginStoreEndToEndSession(c, d, s, info) ==
    /\ inflight[c].phase = "none"
    /\ inflight' = [inflight EXCEPT ![c] =
                       [phase |-> "read", op |-> "storeEndToEndSession", deviceKey |-> d,
                        sessionId |-> s, info |-> info,
                        sessions |-> storeEndToEndSessionRead(store, d)]]
    /\ UNCHANGED <<store, ret>>
    /\ AtRest

FinishStoreEndToEndSession(c, pos) ==
    /\ inflight[c].phase = "read"
    /\ inflight[c].op = "storeEndToEndSession"
    /\ CanAdd(keyEndToEndSessions(inflight[c].deviceKey))
    /\ LET call == inflight[c]
           r == storeEndToEndSessionWrite(store, call.deviceKey, call.sessions,
                                          call.sessionId, call.info, pos)
       IN  /\ store' = r.st
           /\ ret' = [op |-> "storeEndToEndSession", deviceKey |-> call.deviceKey,
                      sessionId |-> call.sessionId, info |-> call.info, res |-> r.res,
                      context |-> c]
    /\ inflight' = [inflight EXCEPT ![c].phase = "written"]
    /\ AtRest

BeginMarkSessionsNeedingBackup(c, sessions) ==
    /\ inflight[c].phase = "none"
    /\ inflight' = [inflight EXCEPT ![c] =
                       [phase |-> "read", op |-> "markSessionsNeedingBackup",
                        sessions |-> sessions,
                        sessionsNeedingBackup |-> markSessionsNeedingBackupRead(store)]]
    /\ UNCHANGED <<store, ret>>
    /\ AtRest

FinishMarkSessionsNeedingBackup(c, pos) ==
    /\ inflight[c].phase = "read"
    /\ inflight[c].op = "markSessionsNeedingBackup"
    /\ CanAdd(KEY_SESSIONS_NEEDING_BACKUP)
    /\ LET call == inflight[c]
           r == markSessionsNeedingBackupWrite(store, call.sessionsNeedingBackup,
                                               call.sessions, pos)
       IN  /\ store' = r.st
           /\ ret' = [op |-> "markSessionsNeedingBackup", sessions |-> call.sessions,
                      res |-> r.res, context |-> c]
    /\ inflight' = [inflight EXCEPT ![c].phase = "written"]
    /\ AtRest

\* Both contexts have returned to their callers; the substrate is left to
\* sequential use
DeleteAfterCalls(sessions) ==
    /\ \A c \in Contexts : inflight[c].phase # "read"
    /\ \E c \in Contexts : inflight[c].phase = "written"
    /\ LET r == deleteEndToEndSessionsBatch(store, sessions)
       IN  /\ store' = r.st
           /\ ret' = [op |-> "deleteEndToEndSessionsBatch", sessions |-> sessions,
                      res |-> r.res, emptied |-> Emptied(store, r.st, sessions),
                      missing |-> Missing(store, sessions)]
    /\ inflight' = AllAtRest
    /\ AtRest

SharedInit ==
    /\ store = <<>>
    /\ ret = NoCall
    /\ pc = "idle"
    /\ batch = <<>>
    /\ returned = <<>>
    /\ initial = {}
    /\ inflight = AllAtRest

SharedNext ==
    \/ \E c \in Contexts, s \in SessionIds, info \in Infos :
           BeginStoreEndToEndSession(c, DEVICE_A, s, info)
    \/ \E c \in Contexts :
           \E pos \in Places(keyEndToEndSessions(DEVICE_A)) : FinishStoreEndToEndSession(c, pos)
    \/ \E c \in Contexts, sessions \in SharedMarkLists :
           BeginMarkSessionsNeedingBackup(c, sessions)
    \/ \E c \in Contexts :
           \E pos \in Places(KEY_SESSIONS_NEEDING_BACKUP) : FinishMarkSessionsNeedingBackup(c, pos)
    \/ \E s \in SessionIds : DeleteAfterCalls(<<[deviceKey |-> DEVICE_A, sessionId |-> s]>>)

SpecShared == SharedInit /\ [][SharedNext]_vars

----------------------------------------------------------------------------
(* Claims about contexts sharing the substrate, checked under SpecShared. *)

\* The keys of the object v, as a set
ObjKeySet(v) == {ObjKeys(v)[i] : i \in 1..Len(ObjKeys(v))}

\* Whether contexts a and b have both written, b last, calls of operation op
BothWritten(a, b, op) ==
    /\ a # b
    /\ inflight[a].phase = "written" /\ inflight[a].op = op
    /\ inflight[b].phase = "written" /\ inflight[b].op = op
    /\ ret.op = op /\ ret.context = b

\* Whether two storeEndToEndSession calls, of a and then b, lost a's update: b
\* read the mapping before a's session was in it and wrote after a
StoreInterleaved(a, b) ==
    /\ BothWritten(a, b, "storeEndToEndSession")
    /\ inflight[a].deviceKey = inflight[b].deviceKey
    /\ inflight[a].sessionId # inflight[b].sessionId
    /\ ~ObjHas(inflight[b].sessions, inflight[a].sessionId)

\* The same for two markSessionsNeedingBackup calls
MarkInterleaved(a, b) ==
    /\ BothWritten(a, b, "markSessionsNeedingBackup")
    /\ inflight[a].sessions # inflight[b].sessions
    /\ CompositeKeys(inflight[a].sessions) \cap ObjKeySet(inflight[b].sessionsNeedingBackup) = {}

\* C23: when two storeEndToEndSession calls for one device key and different
\* session ids, or two markSessionsNeedingBackup calls, run interleaved (the
\* last writer read before the other wrote), the final substrate holds the
\* last writer's entry and not the other's: that update is lost.  Without a
\* step of another context between its read and its write, a call is
\* storeEndToEndSession as one step.
C23_InterleavedUpdateIsLost ==
    /\ \A a, b \in Contexts :
          /\ StoreInterleaved(a, b) =>
                /\ RawSession(store, inflight[a].deviceKey, inflight[a].sessionId) = Undefined
                /\ RawSession(store, inflight[b].deviceKey, inflight[b].sessionId)
                       = inflight[b].info
          /\ MarkInterleaved(a, b) =>
                /\ CompositeKeys(inflight[a].sessions) \cap IndexKeys(store) = {}
                /\ CompositeKeys(inflight[b].sessions) \subseteq IndexKeys(store)
    /\ \A s \in SessionIds, info \in Infos :
          storeEndToEndSessionWrite(store, DEVICE_A, storeEndToEndSessionRead(store, DEVICE_A),
                                    s, info, 1)
              = storeEndToEndSession(store, DEVICE_A, s, info, 1)
    /\ \A sessions \in SharedMarkLists :
          markSessionsNeedingBackupWrite(store, markSessionsNeedingBackupRead(store), sessions, 1)
              = markSessionsNeedingBackup(store, sessions, 1)

\* Two stores of (A, s1) and (A, s2) ran interleaved and only the session of
\* the last writer is in the substrate.
C23_Witness ==
    \E a, b \in Contexts :
        /\ StoreInterleaved(a, b)
        /\ SessionsPresent(store)
               = {[deviceKey |-> inflight[b].deviceKey, sessionId |-> inflight[b].sessionId]}

----------------------------------------------------------------------------
(* A drain of the Olm sessions with other callers of the same store at work *)
(* between its calls.                                                       *)

\* The devices of this model: one whose key holds the separator, one not
DrainDevices == {DEVICE_A, DEVICE_A_SLASH_B}

\* The drain's state is kept as it is
DrainKept == UNCHANGED <<pc, batch, returned, initial, inflight>>

\* A reader between the drain's fetch and its delete
GetEndToEndSessionDuringDrain(d, s) ==
    /\ pc = "fetched"
    /\ LET r == getEndToEndSession(store, d, s)
       IN  /\ store' = r.st
           /\ ret' = [op |-> "getEndToEndSession", deviceKey |-> d, sessionId |-> s,
                      res |-> r.res, pre |-> store]
    /\ DrainKept

\* A writer after the drain's last, null batch
StoreEndToEndSessionAfterDrain(d, s, info, pos) ==
    /\ pc = "done"
    /\ CanAdd(keyEndToEndSessions(d))
    /\ LET r == storeEndToEndSession(store, d, s, info, pos)
       IN  /\ Cardinality(SessionsPresent(r.st)) <= MaxSessions
           /\ store' = r.st
           /\ ret' = [op |-> "storeEndToEndSession", deviceKey |-> d, sessionId |-> s,
                      info |-> info, res |-> r.res]
    /\ DrainKept

OlmDrainNext ==
    \/ \E d \in DrainDevices, s \in SessionIds, info \in Infos :
           \E pos \in Places(keyEndToEndSessions(d)) : StoreEndToEndSession(d, s, info, pos)
    \/ DrainFetchSessions
    \/ DrainDeleteSessions
    \/ \E d \in DrainDevices, s \in SessionIds : GetEndToEndSessionDuringDrain(d, s)
    \/ \E d \in DrainDevices, s \in SessionIds, info \in Infos :
           \E pos \in Places(keyEndToEndSessions(d)) :
               StoreEndToEndSessionAfterDrain(d, s, info, pos)

SpecOlmDrain == OlmFreshInit /\ [][OlmDrainNext]_vars

\* The pair an element of a batch was read under
PairOf(element) == [deviceKey |-> element.deviceKey, sessionId |-> element.sessionId]

\* C24: the drain is not atomic as a pair: between getEndToEndSessionsBatch and
\* the deleteEndToEndSessionsBatch that follows it, getEndToEndSession delivers
\* every session of the fetched batch as present; and a session stored after
\* the drain's final, null batch is in the substrate and is not handed to that
\* drain, whose returned sessions stay as they were.
C24_DrainIsNotAtomic ==
    /\ [](pc = "fetched" =>
            /\ \A i \in 1..Len(batch) :
                  /\ getEndToEndSession(store, batch[i].deviceKey, batch[i].sessionId).res
                         = batch[i].info
                  /\ batch[i].info # EmptyObj
            /\ ret.op = "getEndToEndSession" =>
                  \A i \in 1..Len(batch) :
                      PairOf(batch[i]) = [deviceKey |-> ret.deviceKey, sessionId |-> ret.sessionId]
                      => ret.res = batch[i].info)
    /\ [][(pc = "done" /\ pc' = "done" /\ ret'.op = "storeEndToEndSession") =>
            /\ returned' = returned
            /\ [deviceKey |-> ret'.deviceKey, sessionId |-> ret'.sessionId]
                   \in SessionsPresent(store')]_vars

\* A reader asked, between the fetch and the delete, for a session of the
\* fetched batch and was handed it.
C24_Witness ==
    /\ pc = "fetched"
    /\ ret.op = "getEndToEndSession"
    /\ \E i \in 1..Len(batch) :
          /\ PairOf(batch[i]) = [deviceKey |-> ret.deviceKey, sessionId |-> ret.sessionId]
          /\ ret.res = batch[i].info
    /\ Len(batch) = SESSION_BATCH_SIZE

----------------------------------------------------------------------------
(* Further claims about the whole store, checked under SpecStore. *)

\* C25: setMigrationState overwrites unconditionally: right after a call
\* getMigrationState returns the value of that call, also when it is an
\* earlier stage than the one stored before, and it keeps returning it until
\* the next setMigrationState.
C25_SetMigrationStateOverwrites ==
    /\ [](ret.op = "setMigrationState" => getMigrationState(store).res = ret.migrationState)
    /\ [][ret'.op # "setMigrationState" =>
            getMigrationState(store').res = getMigrationState(store).res]_vars

\* The state was set back to NOT_STARTED from a later stage.
C25_Witness ==
    /\ ret.op = "setMigrationState"
    /\ ret.previous.n > ret.migrationState.n
    /\ ret.migrationState = Num(NOT_STARTED)
    /\ getMigrationState(store).res = Num(NOT_STARTED)

\* The items of st whose key does not begin with the reserved prefix
Unrelated(st) == SelectSeq(st, LAMBDA it : ~StartsWith(it.key, E2E_PREFIX))

\* The items of st whose key begins with the reserved prefix
Reserved(st) == SelectSeq(st, LAMBDA it : StartsWith(it.key, E2E_PREFIX))

\* C27: no operation writes or removes a key that does not begin with
\* 'crypto.': every step leaves the unrelated keys and their values as they
\* were, so they are as they were initially; and every count, batch and get
\* delivers on the substrate what it delivers on the substrate without its
\* unrelated keys.
C27_UnrelatedKeysAreIsolated ==
    /\ [](/\ Reads(store) = Reads(Reserved(store))
          /\ (ret.op \in DOMAIN Reads(store) =>
                 ret.res = Reads(Reserved(ret.pre))[ret.op]))
    /\ [][Unrelated(store') = Unrelated(store)]_vars

\* deleteAllData has run on a substrate that holds an unrelated key beside
\* keys of the store, and the unrelated key is there with its value.
C27_Witness ==
    /\ ret.op = "deleteAllData"
    /\ \E k \in UnrelatedKeys : Unrelated(store) = <<UnrelatedItem(k)>>
    /\ Len(Reserved(store)) >= 2

----------------------------------------------------------------------------
(* doTxn.  The unit of work a caller hands to doTxn is a function of the    *)
(* transaction handle that calls the store; the model has three of them.   *)

\* The units of work: one that advances the migration by a stage and returns
\* the stage it found, one that stores an account and then throws, and one
\* that returns the handle it was given
Works ==
    {[kind |-> "advance"], [kind |-> "handle"]}
    \cup {[kind |-> "storeThenThrow", accountPickle |-> a] : a \in AccountPickles}

\* func(txn): what the unit of work does to st and returns
RunWork(work, st, txn, pos) ==
    IF work.kind = "advance"
    THEN LET stage == getMigrationState(st).res
         IN  [st |-> setMigrationState(st, Num(stage.n + 1), pos).st, res |-> stage]
    ELSE IF work.kind = "storeThenThrow"
    THEN [st |-> storeAccount(st, work.accountPickle, pos).st, res |-> Thrown]
    ELSE [st |-> st, res |-> txn]

\* doTxn, had it run the unit of work again on commit
doTxn_runsTwice(st, work, pos) ==
    LET r == RunWork(work, st, Null, pos)
    IN  [st |-> RunWork(work, r.st, Null, pos).st, res |-> r.res]

\* doTxn(mode, stores, func): Promise.resolve(func(null))
doTxn(st, work, pos) ==
    LET r == RunWork(work, st, Null, pos)
    IN  [st |-> r.st, res |-> r.res]

\* The key a unit of work writes
WorkKey(work) ==
    IF work.kind = "advance" THEN KEY_END_TO_END_MIGRATION_STATE ELSE KEY_END_TO_END_ACCOUNT

DoTxn(work, pos) ==
    /\ Quiescent
    /\ work.kind = "handle" \/ CanAdd(WorkKey(work))
    /\ work.kind = "advance" => getMigrationState(store).res.n < MaxStage
    /\ LET r == doTxn(store, work, pos)
       IN  /\ store' = r.st
           /\ ret' = [op |-> "doTxn", work |-> work, res |-> r.res, pre |-> store]
    /\ Idle

TxnNext ==
    \/ \E work \in Works : \E pos \in Places(WorkKey(work)) : DoTxn(work, pos)
    \/ GetMigrationState
    \/ \E pos \in Places(KEY_END_TO_END_MIGRATION_STATE) : SetMigrationState(Num(NOT_STARTED), pos)
    \/ GetAccount
    \/ DeleteAllData

SpecTxn == StoreInit /\ [][TxnNext]_vars

\* C26: doTxn invokes the unit of work once, at once, with null as the
\* handle, and its result is what the unit of work returned; doTxn itself
\* writes nothing, and the writes of a unit of work that throws stay.  After
\* doTxn of the advancing work the stage is one more than before and the
\* result is the stage found; of the work that returns its handle, the result
\* is null and the substrate is as before; of the work that stores an account
\* and throws, the account is stored.  Every key the work does not write is
\* as before.
C26_DoTxnPassesThrough ==
    ret.op = "doTxn" =>
        /\ ret.work.kind = "advance" =>
              /\ ret.res = getMigrationState(ret.pre).res
              /\ getMigrationState(store).res = Num(ret.res.n + 1)
        /\ ret.work.kind = "handle" =>
              /\ ret.res = Null
              /\ store = ret.pre
        /\ ret.work.kind = "storeThenThrow" =>
              /\ ret.res = Thrown
              /\ getAccount(store).res = ret.work.accountPickle
        /\ \A k \in (Keys(store) \cup Keys(ret.pre)) \ {WorkKey(ret.work)} :
              GetItem(store, k) = GetItem(ret.pre, k)

\* doTxn ran the advancing work on a store that holds an account and a
\* stage, and the stage went up by one.
C26_Witness ==
    /\ ret.op = "doTxn"
    /\ ret.work.kind = "advance"
    /\ getMigrationState(ret.pre).res = Num(NOT_STARTED + 1)
    /\ getMigrationState(store).res = Num(NOT_STARTED + 2)
    /\ HasKey(store, KEY_END_TO_END_ACCOUNT)

----------------------------------------------------------------------------
(* Inbound group sessions beside their withheld notices.  Nothing in this  *)
(* class writes a withheld notice: the substrate is found with them.       *)

WithheldKey(p) == keyEndToEndInboundGroupSessionWithheld(p.senderKey, p.sessionId)

\* The pairs that a withheld notice may be found for
WithheldPairs == {p \in GroupPairs : p.senderKey = SENDER_K}

\* A withheld notice as it is found
WithheldItem(p) == [key |-> WithheldKey(p), val |-> [json |-> A_RECORD]]

\* The substrates found: a notice for none, one or both of the pairs, in
\* either order
WithheldStores ==
    {<<>>}
    \cup {<<WithheldItem(p)>> : p \in WithheldPairs}
    \cup {<<WithheldItem(pq[1]), WithheldItem(pq[2])>> :
              pq \in {x \in WithheldPairs \X WithheldPairs : x[1] # x[2]}}

WithheldInit ==
    /\ store \in WithheldStores
    /\ ret = NoCall
    /\ pc = "idle"
    /\ batch = <<>>
    /\ returned = <<>>
    /\ initial = {}
    /\ inflight = AllAtRest

WithheldNext ==
    \/ \E p \in GroupPairs, data \in GroupData :
           \E pos \in Places(GroupKey(p)) : StoreEndToEndInboundGroupSession(p, data, pos)
    \/ \E p \in GroupPairs : GetEndToEndInboundGroupSession(p)
    \/ \E p \in GroupPairs : DeleteEndToEndInboundGroupSessionsBatch(<<p>>)

SpecWithheld == WithheldInit /\ [][WithheldNext]_vars

\* What getEndToEndInboundGroupSession hands to its callback for the pair p
GotGroupSession(st, p) == getEndToEndInboundGroupSession(st, p.senderKey, p.sessionId).res

\* Whether the call recorded in r stores or deletes the session of the pair p
WritesGroupSession(r, p) ==
    \/ /\ r.op = "storeEndToEndInboundGroupSession"
       /\ r.senderKey = p.senderKey
       /\ r.sessionId = p.sessionId
    \/ /\ r.op = "deleteEndToEndInboundGroupSessionsBatch"
       /\ \E i \in 1..Len(r.sessions) : r.sessions[i] = p

\* C28: getEndToEndInboundGroupSession delivers for a pair the data last
\* stored for that pair (a store is followed by that data, and no call for
\* another pair changes it) together with the withheld notice of the pair;
\* each of the two is null when its own key is absent, whatever the other is;
\* and a store leaves every withheld notice as it was, present or absent.
C28_GroupSessionAndWithheld ==
    /\ [](/\ (ret.op = "storeEndToEndInboundGroupSession" =>
                 GotGroupSession(store, [senderKey |-> ret.senderKey,
                                         sessionId |-> ret.sessionId]).groupSession
                     = ret.sessionData)
          /\ (ret.op = "getEndToEndInboundGroupSession" =>
                 ret.res = GotGroupSession(store, [senderKey |-> ret.senderKey,
                                                   sessionId |-> ret.sessionId]))
          /\ \A p \in GroupPairs :
                /\ ~HasKey(store, GroupKey(p)) => GotGroupSession(store, p).groupSession = Null
                /\ ~HasKey(store, WithheldKey(p)) =>
                       GotGroupSession(store, p).groupSessionWithheld = Null
                /\ HasKey(store, WithheldKey(p)) =>
                       GotGroupSession(store, p).groupSessionWithheld = A_RECORD)
    /\ [][\A p \in GroupPairs :
             /\ ~WritesGroupSession(ret', p) =>
                    GotGroupSession(store', p).groupSession
                        = GotGroupSession(store, p).groupSession
             /\ ret'.op = "storeEndToEndInboundGroupSession" =>
                    GetItem(store', WithheldKey(p)) = GetItem(store, WithheldKey(p))]_vars

\* A get delivered a stored session together with its withheld notice, while
\* another pair has a notice and no session.
C28_Witness ==
    /\ ret.op = "getEndToEndInboundGroupSession"
    /\ ret.res.groupSession \in GroupData
    /\ ret.res.groupSessionWithheld = A_RECORD
    /\ \E p \in WithheldPairs :
          /\ GotGroupSession(store, p).groupSession = Null
          /\ GotGroupSession(store, p).groupSessionWithheld = A_RECORD

----------------------------------------------------------------------------
(* The single-key blobs: the account and the cached secret-storage keys of *)
(* two secret types.                                                       *)

\* The secret types: the one of SecretTypes and another
BlobSecretTypes == SecretTypes \cup {<<"t", "2">>}

\* The private keys stored: a string and a record
BlobSecretKeys == SecretKeys \cup {A_RECORD}

BlobsNext ==
    \/ GetAccount
    \/ \E a \in AccountPickles : \E pos \in Places(KEY_END_TO_END_ACCOUNT) : StoreAccount(a, pos)
    \/ \E type \in BlobSecretTypes : GetSecretStorePrivateKey(type)
    \/ \E type \in BlobSecretTypes, key \in BlobSecretKeys :
           \E pos \in Places(keySecretStorePrivateKey(type)) :
               StoreSecretStorePrivateKey(type, key, pos)
    \/ DeleteAllData

SpecBlobs == StoreInit /\ [][BlobsNext]_vars

\* C29: after storeAccount(p), getAccount delivers p; after
\* storeSecretStorePrivateKey(type, k), getSecretStorePrivateKey(type)
\* delivers k; a getter delivers null when its key is not in the substrate;
\* a store of a secret leaves the account and the key of every other secret
\* type as they were, a store of the account leaves every secret as it was,
\* and a getter changes nothing.
C29_BlobsRoundTrip ==
    /\ [](/\ (ret.op = "storeAccount" => getAccount(store).res = ret.accountPickle)
          /\ (ret.op = "storeSecretStorePrivateKey" =>
                 getSecretStorePrivateKey(store, ret.type).res = ret.key)
          /\ (ret.op = "getAccount" => ret.res = getAccount(store).res)
          /\ (ret.op = "getSecretStorePrivateKey" =>
                 ret.res = getSecretStorePrivateKey(store, ret.type).res)
          /\ (~HasKey(store, KEY_END_TO_END_ACCOUNT) => getAccount(store).res = Null)
          /\ \A type \in BlobSecretTypes :
                ~HasKey(store, keySecretStorePrivateKey(type)) =>
                    getSecretStorePrivateKey(store, type).res = Null)
    /\ [][/\ ret'.op = "storeSecretStorePrivateKey" =>
                /\ getAccount(store').res = getAccount(store).res
                /\ \A type \in BlobSecretTypes \ {ret'.type} :
                      getSecretStorePrivateKey(store', type).res
                          = getSecretStorePrivateKey(store, type).res
          /\ ret'.op = "storeAccount" =>
                \A type \in BlobSecretTypes :
                    getSecretStorePrivateKey(store', type).res
                        = getSecretStorePrivateKey(store, type).res
          /\ ret'.op \in {"getAccount", "getSecretStorePrivateKey"} => store' = store]_vars

\* A secret was stored for one type while the account and a different key
\* for the other type are stored.
C29_Witness ==
    /\ ret.op = "storeSecretStorePrivateKey"
    /\ getAccount(store).res \in AccountPickles
    /\ \E type \in BlobSecretTypes \ {ret.type} :
          /\ getSecretStorePrivateKey(store, type).res \in BlobSecretKeys
          /\ getSecretStorePrivateKey(store, type).res # ret.key

----------------------------------------------------------------------------
(* containsData over the life of a store, checked under SpecStore, whose   *)
(* substrate begins without a key under the prefix.                        *)

\* C31: containsData() is true in every state reached after a write under
\* the prefix: it is true right after such a write, and once it is true no
\* later call, a delete included, makes it false.
C31_ContainsDataStaysTrue ==
    /\ [](ret.op \in PrefixWrites => containsData(store).res = Bool(TRUE))
    /\ [][containsData(store).res = Bool(TRUE) => containsData(store').res = Bool(TRUE)]_vars

----------------------------------------------------------------------------
(* The inbound group sessions beside keys of every other entity type: the  *)
(* substrate is found with withheld notices or a room, and the account, an *)
(* Olm session and the backup-needed index are written beside them.        *)

\* A room record as it is found
RoomItem == [key |-> keyEndToEndRoomsPrefix(THE_ROOM), val |-> [json |-> A_RECORD]]

\* The substrates found: withheld notices, or a room with or without a notice
CountStores ==
    WithheldStores
    \cup {<<RoomItem>>}
    \cup {<<RoomItem, WithheldItem(p)>> : p \in WithheldPairs}

CountInit ==
    /\ store \in CountStores
    /\ ret = NoCall
    /\ pc = "idle"
    /\ batch = <<>>
    /\ returned = <<>>
    /\ initial = {}
    /\ inflight = AllAtRest

CountNext ==
    \/ \E p \in BackupPairs :
           \E pos \in Places(GroupKey(p)) :
               StoreEndToEndInboundGroupSession(p, Info(<<"p", "1">>), pos)
    \/ \E p \in BackupPairs : DeleteEndToEndInboundGroupSessionsBatch(<<p>>)
    \/ CountEndToEndInboundGroupSessions
    \/ GetEndToEndInboundGroupSessionsBatch
    \/ \E p \in WithheldPairs :
           \E pos \in Places(KEY_SESSIONS_NEEDING_BACKUP) : MarkSessionsNeedingBackup(<<p>>, pos)
    \/ \E pos \in Places(KEY_END_TO_END_ACCOUNT) : StoreAccount(Str(<<"a", "1">>), pos)
    \/ \E pos \in Places(keyEndToEndSessions(THE_SESSION.deviceKey)) :
           StoreEndToEndSession(THE_SESSION.deviceKey, THE_SESSION.sessionId,
                                Info(<<"p", "1">>), pos)

SpecCount == CountInit /\ [][CountNext]_vars

\* The (senderKey, sessionId) pairs that the elements name
PairsOf(elements) ==
    {[senderKey |-> elements[i].senderKey, sessionId |-> elements[i].sessionId] :
        i \in 1..Len(elements)}

\* C32: countEndToEndInboundGroupSessions reports the number of inbound group
\* sessions stored and not deleted: the sessions held are none at the start,
\* gain the pair of each store, lose the pairs of each delete and are kept by
\* every other call, and the count is their number in every state, whatever
\* withheld notices, backup-needed index, account, Olm sessions or rooms the
\* substrate holds; and every element of getEndToEndInboundGroupSessionsBatch
\* is one of the sessions held, never a withheld notice.
C32_CountIsGroupSessionsOnly ==
    /\ GroupSessionsPresent(store) = {}
    /\ [](/\ countEndToEndInboundGroupSessions(store).res
                = Num(Cardinality(GroupSessionsPresent(store)))
          /\ (ret.op = "countEndToEndInboundGroupSessions" =>
                 ret.res = Num(Cardinality(GroupSessionsPresent(ret.pre))))
          /\ PairsOf(GroupBatch(store)) \subseteq GroupSessionsPresent(store)
          /\ Len(GroupBatch(store)) = Cardinality(PairsOf(GroupBatch(store)))
          /\ (ret.op = "getEndToEndInboundGroupSessionsBatch" =>
                 ret.res = getEndToEndInboundGroupSessionsBatch(ret.pre).res))
    /\ [][GroupSessionsPresent(store') =
            IF ret'.op = "storeEndToEndInboundGroupSession"
            THEN GroupSessionsPresent(store)
                     \cup {[senderKey |-> ret'.senderKey, sessionId |-> ret'.sessionId]}
            ELSE IF ret'.op = "deleteEndToEndInboundGroupSessionsBatch"
            THEN GroupSessionsPresent(store) \ Listed(ret'.sessions)
            ELSE GroupSessionsPresent(store)]_vars

\* The count was one on a substrate that holds, beside the one session, its
\* withheld notice and the backup-needed index.
C32_Witness ==
    /\ ret.op = "countEndToEndInboundGroupSessions"
    /\ ret.res = Num(1)
    /\ Len(store) = 3
    /\ HasKey(store, KEY_SESSIONS_NEEDING_BACKUP)
    /\ \E p \in WithheldPairs : HasKey(store, WithheldKey(p)) /\ HasKey(store, GroupKey(p))

----------------------------------------------------------------------------
(* What the elements of getEndToEndSessionsBatch tell their receiver,      *)
(* checked under SpecOlm.                                                  *)

\* The fields of ISessionInfo that name the pair
DEVICE_KEY == <<"d", "e", "v", "i", "c", "e", "K", "e", "y">>

SESSION_ID == <<"s", "e", "s", "s", "i", "o", "n", "I", "d">>

\* Whether the element e of a batch names a pair and is the session that st
\* holds under that pair
NamesItsPair(st, e) ==
    /\ ObjHas(e, DEVICE_KEY)
    /\ ObjHas(e, SESSION_ID)
    /\ ObjGet(e, DEVICE_KEY).t = "str"
    /\ ObjGet(e, SESSION_ID).t = "str"
    /\ LET p == [deviceKey |-> ObjGet(e, DEVICE_KEY).s, sessionId |-> ObjGet(e, SESSION_ID).s]
       IN  /\ p \in SessionsPresent(st)
           /\ getEndToEndSession(st, p.deviceKey, p.sessionId).res = e

\* The delete list that the receiver of a batch makes of its elements
DeleteListOf(elements) ==
    [i \in 1..Len(elements) |->
        [deviceKey |-> ObjGet(elements[i], DEVICE_KEY).s,
         sessionId |-> ObjGet(elements[i], SESSION_ID).s]]

\* C33: every element of getEndToEndSessionsBatch names the (deviceKey,
\* sessionId) pair it is stored under, and deleteEndToEndSessionsBatch of the
\* pairs the elements name removes exactly those sessions; also for a session
\* stored in the legacy form.
C33_BatchElementsNameTheirPair ==
    LET res == getEndToEndSessionsBatch(store).res
        elements == IF res = Null THEN <<>> ELSE res.a
    IN  /\ \A i \in 1..Len(elements) : NamesItsPair(store, elements[i])
        /\ SessionsPresent(deleteEndToEndSessionsBatch(store, DeleteListOf(elements)).st)
               = SessionsPresent(store) \ Listed(DeleteListOf(elements))

----------------------------------------------------------------------------
(* A drain of the Olm sessions with a writer at work between its fetch and *)
(* its delete.                                                             *)

\* The pairs the fetched batch names
BatchPairs == {PairOf(batch[i]) : i \in 1..Len(batch)}

\* The pairs of the fetched batch that the call r and the writes before it
\* have stored again since the fetch
StoredSinceFetch(r) ==
    IF r.op = "storeEndToEndSession" /\ "sinceFetch" \in DOMAIN r THEN r.sinceFetch ELSE {}

\* A writer between the drain's fetch and its delete
StoreEndToEndSessionDuringDrain(d, s, info, pos) ==
    /\ pc = "fetched"
    /\ CanAdd(keyEndToEndSessions(d))
    /\ LET r == storeEndToEndSession(store, d, s, info, pos)
       IN  /\ Cardinality(SessionsPresent(r.st)) <= MaxSessions
           /\ store' = r.st
           /\ ret' = [op |-> "storeEndToEndSession", deviceKey |-> d, sessionId |-> s,
                      info |-> info, res |-> r.res,
                      sinceFetch |-> StoredSinceFetch(ret)
                          \cup ({[deviceKey |-> d, sessionId |-> s]} \cap BatchPairs)]
    /\ DrainKept

\* Before a drain the sessions are stored with one pickle; the writer at work
\* during the drain stores the other
OlmRaceNext ==
    \/ \E d \in DrainDevices, s \in SessionIds :
           \E pos \in Places(keyEndToEndSessions(d)) :
               StoreEndToEndSession(d, s, Info(<<"p", "1">>), pos)
    \/ Len(returned) < MaxReturned /\ DrainFetchSessions
    \/ DrainDeleteSessions
    \/ \E d \in DrainDevices, s \in SessionIds :
           \E pos \in Places(keyEndToEndSessions(d)) :
               StoreEndToEndSessionDuringDrain(d, s, Info(<<"p", "2">>), pos)
    \/ AbandonDrain

SpecOlmRace == OlmFreshInit /\ [][OlmRaceNext]_vars

\* The session-info that st holds for the pair p
InfoAt(st, p) == getEndToEndSession(st, p.deviceKey, p.sessionId).res

\* Whether the step is the delete of a drain
IsDrainDelete == pc = "fetched" /\ pc' = "deleted"

\* C34 as stated: the delete of a drain removes no session data that the
\* drain has not returned, whatever storeEndToEndSession calls came between
\* the fetch and the delete: every session it removes is in the fetched batch
\* with the very info the substrate held for it.
C34_DrainDeletesOnlyReturned ==
    [][IsDrainDelete =>
          \A p \in SessionsPresent(store) \ SessionsPresent(store') :
              \E i \in 1..Len(batch) :
                  PairOf(batch[i]) = p /\ batch[i].info = InfoAt(store, p)]_vars

\* C34 as amended: the delete of a drain removes only sessions of the fetched
\* batch, and each with the info the drain returned for it unless
\* storeEndToEndSession has stored that pair again since the fetch (that
\* newer info is deleted unreturned); a session stored since the fetch under
\* a pair that is not in the batch stays, with its info.
C34_DrainDeletesOnlyFetchedPairs ==
    [][IsDrainDelete =>
          /\ \A p \in SessionsPresent(store) \ SessionsPresent(store') :
                \E i \in 1..Len(batch) :
                    /\ PairOf(batch[i]) = p
                    /\ p \notin StoredSinceFetch(ret) => batch[i].info = InfoAt(store, p)
          /\ \A p \in SessionsPresent(store) \ BatchPairs :
                /\ p \in SessionsPresent(store')
                /\ InfoAt(store', p) = InfoAt(store, p)]_vars

\* The delete of a drain has run after a writer stored, since the drain
\* began, a session that was not in the batch: the session is there.
C34_Witness ==
    /\ pc = "deleted"
    /\ ret.op = "deleteEndToEndSessionsBatch"
    /\ Len(batch) >= 1
    /\ \E p \in SessionsPresent(store) : p \notin initial /\ p \notin BatchPairs

----------------------------------------------------------------------------
(* Every read operation, on substrates as they are found: with a damaged   *)
(* or foreign record, or with sessions in the legacy encoding.             *)

ReadsInit ==
    /\ store \in FoundStores \cup OlmInitialStores
    /\ ret = NoCall
    /\ pc = "idle"
    /\ batch = <<>>
    /\ returned = <<>>
    /\ initial = {}
    /\ inflight = AllAtRest

ReadsNext ==
    \/ FoundNext
    \/ ContainsData

SpecReads == ReadsInit /\ [][ReadsNext]_vars

\* The read operations
ReadCalls ==
    {"containsData", "getMigrationState", "countEndToEndSessions", "getEndToEndSession",
     "getEndToEndSessions", "getEndToEndSessionsBatch", "getEndToEndInboundGroupSession",
     "countEndToEndInboundGroupSessions", "getEndToEndInboundGroupSessionsBatch",
     "getEndToEndRooms", "getAccount", "getCrossSigningKeys", "getSecretStorePrivateKey"}

\* Whether every read operation, called on st, leaves st as its substrate
ReadsLeave(st) ==
    /\ containsData(st).st = st
    /\ getMigrationState(st).st = st
    /\ countEndToEndSessions(st).st = st
    /\ getEndToEndSession(st, THE_SESSION.deviceKey, THE_SESSION.sessionId).st = st
    /\ getEndToEndSessions(st, THE_SESSION.deviceKey).st = st
    /\ getEndToEndSessionsBatch(st).st = st
    /\ getEndToEndInboundGroupSession(st, THE_GROUP_SESSION.senderKey,
                                      THE_GROUP_SESSION.sessionId).st = st
    /\ countEndToEndInboundGroupSessions(st).st = st
    /\ getEndToEndInboundGroupSessionsBatch(st).st = st
    /\ getEndToEndRooms(st).st = st
    /\ getAccount(st).st = st
    /\ getCrossSigningKeys(st).st = st
    /\ getSecretStorePrivateKey(st, <<"t", "1">>).st = st

\* C35: every read operation leaves the substrate as it was: the keys, their
\* order and every stored text are the same after the call as before, also
\* where the call fixes up a legacy entry or meets damaged text.
C35_ReadsLeaveSubstrate ==
    /\ [](ReadsLeave(store))
    /\ [][ret'.op \in ReadCalls => (store' = store /\ ret'.pre = store)]_vars

\* getEndToEndSession delivered the fixed-up form of a legacy entry, and the
\* substrate still holds the bare string.
C35_Witness ==
    /\ ret.op = "getEndToEndSession"
    /\ ret.res = Info(<<"p", "1">>)
    /\ RawSession(store, ret.deviceKey, ret.sessionId) = Str(<<"p", "1">>)

----------------------------------------------------------------------------
(* The key namespace: which keys each entity type produces, and which keys *)
(* each entity type's operations select.  Checked on the substrates as     *)
(* they are found, with every write of the class made on them.             *)

\* The writes of the class, one of each
KeysNext ==
    \/ \E pos \in Places(KEY_END_TO_END_MIGRATION_STATE) :
           SetMigrationState(Num(NOT_STARTED + 1), pos)
    \/ \E pos \in Places(KEY_END_TO_END_ACCOUNT) : StoreAccount(Str(<<"a", "1">>), pos)
    \/ DeleteAllData
    \/ \E pos \in Places(keySecretStorePrivateKey(<<"t", "1">>)) :
           StoreSecretStorePrivateKey(<<"t", "1">>, Str(<<"k", "1">>), pos)
    \/ \E pos \in Places(keyEndToEndSessions(THE_SESSION.deviceKey)) :
           StoreEndToEndSession(THE_SESSION.deviceKey, THE_SESSION.sessionId,
                                Info(<<"p", "1">>), pos)
    \/ DeleteEndToEndSessionsBatch(<<THE_SESSION>>)
    \/ \E pos \in Places(GroupKey(THE_GROUP_SESSION)) :
           StoreEndToEndInboundGroupSession(THE_GROUP_SESSION, Info(<<"p", "1">>), pos)
    \/ DeleteEndToEndInboundGroupSessionsBatch(<<THE_GROUP_SESSION>>)
    \/ \E pos \in Places(KEY_SESSIONS_NEEDING_BACKUP) :
           MarkSessionsNeedingBackup(<<THE_GROUP_SESSION>>, pos)

SpecKeys == FoundInit /\ [][KeysNext]_vars

\* The entity types
EntityTypes ==
    {"sessions", "group", "withheld", "rooms", "backup", "account", "migration",
     "crossSigning", "secret"}

\* Device keys, room ids and secret types that a key is made of, some of them
\* chosen to look like part of another type's key
KeyParts ==
    { <<>>, <<"/">>, <<".">>, DEVICE_A, DEVICE_A_SLASH_B,
      <<"n", "e", "e", "d", "i", "n", "g", "b", "a", "c", "k", "u", "p">>,
      <<".", "w", "i", "t", "h", "h", "e", "l", "d", "/">> }

\* The (senderKey, sessionId) pairs with a sender key of 43 characters
FullPairs ==
    {[senderKey |-> k, sessionId |-> s] : k \in {SENDER_K, SENDER_SLASH}, s \in KeyParts}

\* The keys that an entity type produces
KeysOfType(T) ==
    CASE T = "sessions"     -> {keyEndToEndSessions(d) : d \in KeyParts}
      [] T = "group"        -> {GroupKey(p) : p \in FullPairs}
      [] T = "withheld"     -> {WithheldKey(p) : p \in FullPairs}
      [] T = "rooms"        -> {keyEndToEndRoomsPrefix(r) : r \in KeyParts}
      [] T = "backup"       -> {KEY_SESSIONS_NEEDING_BACKUP}
      [] T = "account"      -> {KEY_END_TO_END_ACCOUNT}
      [] T = "migration"    -> {KEY_END_TO_END_MIGRATION_STATE}
      [] T = "crossSigning" -> {KEY_CROSS_SIGNING_KEYS}
      [] T = "secret"       -> {keySecretStorePrivateKey(t) : t \in KeyParts}

\* Whether the operations of the entity type T select the key: the scans of
\* the Olm sessions, the inbound group sessions and the rooms take every key
\* under their prefix, the other types take their own keys
Selects(T, key) ==
    CASE T = "sessions" -> StartsWith(key, keyEndToEndSessions(<<>>))
      [] T = "group"    -> StartsWith(key, KEY_INBOUND_SESSION_PREFIX)
      [] T = "rooms"    -> StartsWith(key, keyEndToEndRoomsPrefix(<<>>))
      [] OTHER          -> key \in KeysOfType(T)

\* The items of st that the operations of the entity type T select
Selected(T, st) == SelectSeq(st, LAMBDA it : Selects(T, it.key))

\* The entity type that the call named op writes
TypeWritten(op) ==
    CASE op \in {"storeEndToEndSession", "deleteEndToEndSessionsBatch"} -> "sessions"
      [] op \in {"storeEndToEndInboundGroupSession",
                 "deleteEndToEndInboundGroupSessionsBatch"} -> "group"
      [] op = "markSessionsNeedingBackup" -> "backup"
      [] op \in {"storeAccount", "deleteAllData"} -> "account"
      [] op = "setMigrationState" -> "migration"
      [] op = "storeSecretStorePrivateKey" -> "secret"
      [] OTHER -> "none"

\* What the read operations deliver of the entity type T on st
ReadsOfType(T, st) ==
    CASE T = "sessions" ->
             <<countEndToEndSessions(st).res, getEndToEndSessionsBatch(st).res,
               getEndToEndSessions(st, THE_SESSION.deviceKey).res>>
      [] T = "group" ->
             <<countEndToEndInboundGroupSessions(st).res,
               [i \in 1..Len(GroupBatch(st)) |->
                   <<GroupBatch(st)[i].senderKey, GroupBatch(st)[i].sessionId,
                     GroupBatch(st)[i].sessionData>>],
               GotGroupSession(st, THE_GROUP_SESSION).groupSession>>
      [] T = "withheld" -> <<GotGroupSession(st, THE_GROUP_SESSION).groupSessionWithheld>>
      [] T = "rooms" -> <<getEndToEndRooms(st).res>>
      [] T = "backup" -> <<BackupIndex(st)>>
      [] T = "account" -> <<getAccount(st).res>>
      [] T = "migration" -> <<getMigrationState(st).res>>
      [] T = "crossSigning" -> <<getCrossSigningKeys(st).res>>
      [] T = "secret" -> <<getSecretStorePrivateKey(st, <<"t", "1">>).res>>

====
